---- MODULE Spec2Model ----
(***************************************************************************)
(* Reddit Mastermind: the weekly content-calendar generator.               *)
(*                                                                         *)
(* The model follows ContentGenerator.generate (content-generator.ts):     *)
(* reset of the three strategies, createWeeklyPostPlan, generatePosts,     *)
(* generateComments, fixTimestampIssues, validateContentCalendar, and the  *)
(* final assembly.  The three strategies (SubredditStrategy,               *)
(* KeywordStrategy, PersonaMatcher), the date utilities and the validators *)
(* are operators translated from their sources.                            *)
(*                                                                         *)
(* Encoding.  Subreddit names, persona usernames and keyword ids are       *)
(* natural numbers.  The post id `P<n>` is the number n, the comment id    *)
(* `C<n>` is the number n, and a null parent_comment_id is 0.  A timestamp *)
(* is a number of minutes counted from the Monday 00:00 that               *)
(* getCurrentWeekStart returns (all timestamps of a run fall on whole      *)
(* minutes).  Every Math.random() draw is an input of the action that      *)
(* makes it; the draw is passed to the operator as the integer the code    *)
(* derives from it (Math.floor(Math.random() * k)) or as the boolean of    *)
(* the comparison the code makes with it.                                  *)
(***************************************************************************)
EXTENDS Integers, Sequences, FiniteSets, TLC

\* ------------------------------------------------------------------------
\* Bounds of the model
\* ------------------------------------------------------------------------
MaxPosts == 2
MaxSubreddits == 2
MaxPersonas == 3
MaxKeywords == 3
\* Longest persona list of a single-post run
MaxThreadPersonas == 4
\* Number of generate calls made one after the other on one generator
MaxRuns == 2

\* ------------------------------------------------------------------------
\* Generic helpers
\* ------------------------------------------------------------------------
Min(a, b) == IF a < b THEN a ELSE b

Range(s) == {s[i] : i \in 1..Len(s)}

\* Lexicographic order on the pairs <<k1, k2>> that the comparators of the
\* three strategies induce (first difference, then second difference).
KeyLess(a, b) == a[1] < b[1] \/ (a[1] = b[1] /\ a[2] < b[2])

\* F(x), with x evaluated once.
let(x, F(_)) == CHOOSE r \in {F(v) : v \in {x}} : TRUE

\* Array.prototype.sort is stable: the result lists the indices of `keys`
\* by ascending key, equal keys in their original order.
sortedIndices(keys) ==
  LET n == Len(keys)
      rank(i) == Cardinality({j \in 1..n :
                    KeyLess(keys[j], keys[i]) \/ (keys[j] = keys[i] /\ j < i)}) + 1
  IN  [p \in 1..n |-> CHOOSE i \in 1..n : rank(i) = p]

stableSort(keys) == let(keys, sortedIndices)

\* ------------------------------------------------------------------------
\* Date utilities (lib/utils/date.ts)
\* ------------------------------------------------------------------------
getHours(t) == (t \div 60) % 24
getMinutes(t) == t % 60
setHours(t, h) == t - getHours(t) * 60 + h * 60
setMinutes(t, m) == t - getMinutes(t) + m
addMinutes(t, m) == t + m
addHours(t, h) == t + h * 60
addDays(t, d) == t + d * 24 * 60
\* Day of the week as Date.getDay gives it (0 = Sunday); minute 0 is a Monday.
getDay(t) == ((t \div (24 * 60)) + 1) % 7
isWeekend(t) == getDay(t) \in {0, 6}
\* startOfWeek(date, { weekStartsOn: 1 })
startOfWeek(t) == t - (((t \div (24 * 60)) % 7) * 24 * 60) - (t % (24 * 60))

getCurrentWeekStart == 0

\* rnd.relocate  : Math.random() > 0.3
\* rnd.afternoon : Math.random() < 0.5
\* rnd.hour      : Math.floor(Math.random() * 4) when afternoon, else * 12
\* rnd.minute    : Math.floor(Math.random() * 60)
\* Mutation: the afternoon hours start from 18 and not from 14.
generatePostTimeLateAfternoon(weekStart, postIndex, totalPosts, rnd) ==
  LET baseDate == startOfWeek(weekStart)
      dayOffset == (postIndex * 7) \div totalPosts
      postDate0 == addDays(baseDate, dayOffset)
      daysUntilMonday == IF getDay(postDate0) = 0 THEN 1 ELSE 2
      postDate1 == IF isWeekend(postDate0) /\ rnd.relocate
                   THEN addDays(postDate0, daysUntilMonday)
                   ELSE postDate0
      hour == IF rnd.afternoon THEN 18 + rnd.hour ELSE 9 + rnd.hour
  IN  setMinutes(setHours(postDate1, hour), rnd.minute)

\* Mutation: the hours of the whole-day branch start from 0 and not from 9.
generatePostTimeFromMidnight(weekStart, postIndex, totalPosts, rnd) ==
  LET baseDate == startOfWeek(weekStart)
      dayOffset == (postIndex * 7) \div totalPosts
      postDate0 == addDays(baseDate, dayOffset)
      daysUntilMonday == IF getDay(postDate0) = 0 THEN 1 ELSE 2
      postDate1 == IF isWeekend(postDate0) /\ rnd.relocate
                   THEN addDays(postDate0, daysUntilMonday)
                   ELSE postDate0
      hour == IF rnd.afternoon THEN 14 + rnd.hour ELSE rnd.hour
  IN  setMinutes(setHours(postDate1, hour), rnd.minute)

generatePostTime(weekStart, postIndex, totalPosts, rnd) ==
  LET baseDate == startOfWeek(weekStart)
      dayOffset == (postIndex * 7) \div totalPosts
      postDate0 == addDays(baseDate, dayOffset)
      daysUntilMonday == IF getDay(postDate0) = 0 THEN 1 ELSE 2
      postDate1 == IF isWeekend(postDate0) /\ rnd.relocate
                   THEN addDays(postDate0, daysUntilMonday)
                   ELSE postDate0
      hour == IF rnd.afternoon THEN 14 + rnd.hour ELSE 9 + rnd.hour
  IN  setMinutes(setHours(postDate1, hour), rnd.minute)

\* r : Math.floor(Math.random() * 45)
\* Mutation: the 15 minutes that every delay starts from are missing.
generateFirstCommentTimeNoBase(postTime, r) == addMinutes(postTime, r)

generateFirstCommentTime(postTime, r) == addMinutes(postTime, 15 + r)

\* r : Math.floor(Math.random() * 25)
\* Mutation: the 5 minutes that every delay starts from are missing.
generateReplyCommentTimeNoBase(parentCommentTime, r) == addMinutes(parentCommentTime, r)

\* Mutation: the delay is subtracted from the parent's time.
generateReplyCommentTimeBackwards(parentCommentTime, r) ==
  addMinutes(parentCommentTime, 0 - (5 + r))

generateReplyCommentTime(parentCommentTime, r) == addMinutes(parentCommentTime, 5 + r)

\* rh : Math.floor(Math.random() * 5),  rm : Math.floor(Math.random() * 60)
\* Mutation: the hour that every delay starts from is missing.
generateLateCommentTimeNoBase(postTime, rh, rm) ==
  addMinutes(addHours(postTime, rh), rm)

generateLateCommentTime(postTime, rh, rm) ==
  addMinutes(addHours(postTime, 1 + rh), rm)

\* Mutation: a late hour is moved to 9 AM of the same day.
adjustToBusinessHoursSameDay(date) ==
  IF getHours(date) < 6 THEN setHours(setMinutes(date, 0), 9)
  ELSE IF getHours(date) >= 23 THEN setHours(setMinutes(date, 0), 9)
  ELSE date

adjustToBusinessHours(date) ==
  IF getHours(date) < 6 THEN setHours(setMinutes(date, 0), 9)
  ELSE IF getHours(date) >= 23 THEN setHours(setMinutes(addDays(date, 1), 0), 9)
  ELSE date

\* Math.floor((date2 - date1) / 60000), the two dates being whole minutes
getMinutesDifference(date1, date2) == date2 - date1

\* Mutation: a comment at the minute of its post is accepted.
isValidCommentTimeFromZero(postTime, commentTime) ==
  LET diffMinutes == getMinutesDifference(postTime, commentTime)
  IN  diffMinutes >= 0 /\ diffMinutes < 7 * 24 * 60

isValidCommentTime(postTime, commentTime) ==
  LET diffMinutes == getMinutesDifference(postTime, commentTime)
  IN  diffMinutes > 0 /\ diffMinutes < 7 * 24 * 60

\* ------------------------------------------------------------------------
\* SubredditStrategy (lib/algorithm/subreddit-strategy.ts)
\* The usage tracker is a Map: a sequence of entries in insertion order.
\* ------------------------------------------------------------------------
subIndexOf(tracker, sub) ==
  CHOOSE k \in 1..Len(tracker) : tracker[k].subreddit = sub

subHas(tracker, sub) == \E k \in 1..Len(tracker) : tracker[k].subreddit = sub

RECURSIVE subInitTracker(_, _)
subInitTracker(tracker, subreddits) ==
  IF subreddits = <<>> THEN tracker
  ELSE LET sub == Head(subreddits)
           t1 == IF subHas(tracker, sub) THEN tracker
                 ELSE Append(tracker, [subreddit |-> sub, postsThisWeek |-> 0,
                                       lastPostIndex |-> -1])
       IN  subInitTracker(t1, Tail(subreddits))

\* Mutation: the round-robin index is applied to the whole subreddit list
\* instead of the list of subreddits that have no post yet.
selectSubredditFromAll(tracker, subreddits, postIndex) ==
  LET t1 == subInitTracker(tracker, subreddits)
      availableSubreddits ==
        SelectSeq(subreddits, LAMBDA sub : t1[subIndexOf(t1, sub)].postsThisWeek = 0)
      selectedSubreddit ==
        IF Len(availableSubreddits) = 0
        THEN t1[stableSort([k \in 1..Len(t1) |-> <<t1[k].lastPostIndex, 0>>])[1]].subreddit
        ELSE subreddits[(postIndex % Len(availableSubreddits)) + 1]
      k == subIndexOf(t1, selectedSubreddit)
  IN  [tracker |-> [t1 EXCEPT ![k].postsThisWeek = @ + 1,
                              ![k].lastPostIndex = postIndex],
       selected |-> selectedSubreddit]

\* Mutation: the fallback takes the first tracked subreddit instead of the
\* least recently used one.
selectSubredditFirstTracked(tracker, subreddits, postIndex) ==
  LET t1 == subInitTracker(tracker, subreddits)
      availableSubreddits ==
        SelectSeq(subreddits, LAMBDA sub : t1[subIndexOf(t1, sub)].postsThisWeek = 0)
      selectedSubreddit ==
        IF Len(availableSubreddits) = 0
        THEN t1[1].subreddit
        ELSE availableSubreddits[(postIndex % Len(availableSubreddits)) + 1]
      k == subIndexOf(t1, selectedSubreddit)
  IN  [tracker |-> [t1 EXCEPT ![k].postsThisWeek = @ + 1,
                              ![k].lastPostIndex = postIndex],
       selected |-> selectedSubreddit]

selectSubreddit(tracker, subreddits, postIndex) ==
  LET t1 == subInitTracker(tracker, subreddits)
      availableSubreddits ==
        SelectSeq(subreddits, LAMBDA sub : t1[subIndexOf(t1, sub)].postsThisWeek = 0)
      selectedSubreddit ==
        IF Len(availableSubreddits) = 0
        THEN t1[stableSort([k \in 1..Len(t1) |-> <<t1[k].lastPostIndex, 0>>])[1]].subreddit
        ELSE availableSubreddits[(postIndex % Len(availableSubreddits)) + 1]
      k == subIndexOf(t1, selectedSubreddit)
  IN  [tracker |-> [t1 EXCEPT ![k].postsThisWeek = @ + 1,
                              ![k].lastPostIndex = postIndex],
       selected |-> selectedSubreddit]

\* ------------------------------------------------------------------------
\* KeywordStrategy (lib/algorithm/keyword-strategy.ts)
\* usageTracker: keyword id -> [usageCount, lastUsedPostIndex];
\* keywordCombinations: the sorted, comma-joined id lists, i.e. sets of ids.
\* ------------------------------------------------------------------------
kwInitTracker(tracker, availableKeywords) ==
  [id \in DOMAIN tracker \cup Range(availableKeywords) |->
     IF id \in DOMAIN tracker THEN tracker[id]
     ELSE [usageCount |-> 0, lastUsedPostIndex |-> -1]]

kwUse(tracker, id, postIndex) ==
  [tracker EXCEPT ![id] = [usageCount |-> @.usageCount + 1,
                           lastUsedPostIndex |-> postIndex]]

\* Mutation of the first loop: the novelty of the combination is not tested.
RECURSIVE kwFirstPassAnyCombination(_, _, _, _, _)
kwFirstPassAnyCombination(sorted, st, combos, keywordCount, postIndex) ==
  IF sorted = <<>> \/ Len(st.selected) >= keywordCount THEN st
  ELSE LET keyword == Head(sorted)
           st1 == [selected |-> Append(st.selected, keyword),
                   tracker |-> kwUse(st.tracker, keyword, postIndex)]
       IN  kwFirstPassAnyCombination(Tail(sorted), st1, combos, keywordCount, postIndex)

\* First loop: accept a candidate when nothing is selected yet or when the
\* combination it would form has not been recorded.
\* st = [selected, tracker]
RECURSIVE kwFirstPass(_, _, _, _, _)
kwFirstPass(sorted, st, combos, keywordCount, postIndex) ==
  IF sorted = <<>> \/ Len(st.selected) >= keywordCount THEN st
  ELSE LET keyword == Head(sorted)
           potentialCombination == Range(st.selected) \cup {keyword}
           st1 == IF Len(st.selected) = 0 \/ potentialCombination \notin combos
                  THEN [selected |-> Append(st.selected, keyword),
                        tracker |-> kwUse(st.tracker, keyword, postIndex)]
                  ELSE st
       IN  kwFirstPass(Tail(sorted), st1, combos, keywordCount, postIndex)

\* Mutation of the second loop: the already-selected test is missing.
RECURSIVE kwSecondPassNoDedup(_, _, _, _)
kwSecondPassNoDedup(sorted, st, keywordCount, postIndex) ==
  IF sorted = <<>> \/ Len(st.selected) >= keywordCount THEN st
  ELSE LET keyword == Head(sorted)
           st1 == [selected |-> Append(st.selected, keyword),
                   tracker |-> kwUse(st.tracker, keyword, postIndex)]
       IN  kwSecondPassNoDedup(Tail(sorted), st1, keywordCount, postIndex)

\* Second loop: fill up with the least-used keywords not selected yet.
RECURSIVE kwSecondPass(_, _, _, _)
kwSecondPass(sorted, st, keywordCount, postIndex) ==
  IF sorted = <<>> \/ Len(st.selected) >= keywordCount THEN st
  ELSE LET keyword == Head(sorted)
           st1 == IF keyword \notin Range(st.selected)
                  THEN [selected |-> Append(st.selected, keyword),
                        tracker |-> kwUse(st.tracker, keyword, postIndex)]
                  ELSE st
       IN  kwSecondPass(Tail(sorted), st1, keywordCount, postIndex)

\* Mutation: the second loop is missing.
selectKeywordsForPostFirstLoopOnly(kw, availableKeywords, postIndex, keywordCount) ==
  LET t1 == kwInitTracker(kw.tracker, availableKeywords)
      order == stableSort([k \in 1..Len(availableKeywords) |->
                 <<t1[availableKeywords[k]].usageCount,
                   t1[availableKeywords[k]].lastUsedPostIndex>>])
      sortedKeywords == [p \in 1..Len(availableKeywords) |-> availableKeywords[order[p]]]
      st1 == kwFirstPass(sortedKeywords, [selected |-> <<>>, tracker |-> t1],
                         kw.combos, keywordCount, postIndex)
  IN  [tracker |-> st1.tracker,
       combos |-> kw.combos \cup {Range(st1.selected)},
       selected |-> st1.selected]

\* Mutation: the candidates are taken in input order, not ranked by usage.
selectKeywordsForPostInInputOrder(kw, availableKeywords, postIndex, keywordCount) ==
  LET t1 == kwInitTracker(kw.tracker, availableKeywords)
      sortedKeywords == availableKeywords
      st1 == kwFirstPass(sortedKeywords, [selected |-> <<>>, tracker |-> t1],
                         kw.combos, keywordCount, postIndex)
      st2 == IF Len(st1.selected) < keywordCount
             THEN kwSecondPass(sortedKeywords, st1, keywordCount, postIndex)
             ELSE st1
  IN  [tracker |-> st2.tracker,
       combos |-> kw.combos \cup {Range(st2.selected)},
       selected |-> st2.selected]

\* Mutation: the ranking is reversed, the most used keywords come first.
selectKeywordsForPostMostUsedFirst(kw, availableKeywords, postIndex, keywordCount) ==
  LET t1 == kwInitTracker(kw.tracker, availableKeywords)
      order == stableSort([k \in 1..Len(availableKeywords) |->
                 <<t1[availableKeywords[k]].usageCount,
                   t1[availableKeywords[k]].lastUsedPostIndex>>])
      sortedKeywords == [p \in 1..Len(availableKeywords) |->
                           availableKeywords[order[Len(availableKeywords) + 1 - p]]]
      st1 == kwFirstPass(sortedKeywords, [selected |-> <<>>, tracker |-> t1],
                         kw.combos, keywordCount, postIndex)
      st2 == IF Len(st1.selected) < keywordCount
             THEN kwSecondPass(sortedKeywords, st1, keywordCount, postIndex)
             ELSE st1
  IN  [tracker |-> st2.tracker,
       combos |-> kw.combos \cup {Range(st2.selected)},
       selected |-> st2.selected]

\* kw = [tracker, combos]; keywordCount is Math.random() < 0.6 ? 2 : 3
selectKeywordsForPost(kw, availableKeywords, postIndex, keywordCount) ==
  LET t1 == kwInitTracker(kw.tracker, availableKeywords)
      order == stableSort([k \in 1..Len(availableKeywords) |->
                 <<t1[availableKeywords[k]].usageCount,
                   t1[availableKeywords[k]].lastUsedPostIndex>>])
      sortedKeywords == [p \in 1..Len(availableKeywords) |-> availableKeywords[order[p]]]
      st1 == kwFirstPass(sortedKeywords, [selected |-> <<>>, tracker |-> t1],
                         kw.combos, keywordCount, postIndex)
      st2 == IF Len(st1.selected) < keywordCount
             THEN kwSecondPass(sortedKeywords, st1, keywordCount, postIndex)
             ELSE st1
  IN  [tracker |-> st2.tracker,
       combos |-> kw.combos \cup {Range(st2.selected)},
       selected |-> st2.selected]

\* ------------------------------------------------------------------------
\* PersonaMatcher (lib/algorithm/persona-matcher.ts)
\* usageTracker: username -> [postCount, commentCount, lastUsedIndex]
\* ------------------------------------------------------------------------
pmInitTracker(tracker, personas) ==
  [u \in DOMAIN tracker \cup Range(personas) |->
     IF u \in DOMAIN tracker THEN tracker[u]
     ELSE [postCount |-> 0, commentCount |-> 0, lastUsedIndex |-> -1]]

\* Mutation: the candidates are not ranked; the first persona is taken.
selectPostAuthorUnranked(tracker, personas, postIndex) ==
  LET t1 == pmInitTracker(tracker, personas)
      selectedPersona == personas[1]
  IN  [tracker |-> [t1 EXCEPT ![selectedPersona].postCount = @ + 1,
                              ![selectedPersona].lastUsedIndex = postIndex],
       selected |-> selectedPersona]

selectPostAuthor(tracker, personas, postIndex) ==
  LET t1 == pmInitTracker(tracker, personas)
      order == stableSort([k \in 1..Len(personas) |->
                 <<t1[personas[k]].postCount, t1[personas[k]].lastUsedIndex>>])
      selectedPersona == personas[order[1]]
  IN  [tracker |-> [t1 EXCEPT ![selectedPersona].postCount = @ + 1,
                              ![selectedPersona].lastUsedIndex = postIndex],
       selected |-> selectedPersona]

\* Mutation: the post author is not filtered out of the candidates.
selectCommentAuthorsWithAuthor(tracker, personas, postAuthor, postIndex, rCount, opJoins) ==
  LET availablePersonas == personas
      commentCount == Min(2 + rCount, Len(availablePersonas))
      order == stableSort([k \in 1..Len(availablePersonas) |->
                 <<tracker[availablePersonas[k]].commentCount,
                   tracker[availablePersonas[k]].lastUsedIndex>>])
      selectedPersonas == [p \in 1..commentCount |-> availablePersonas[order[p]]]
      t1 == [u \in DOMAIN tracker |->
               IF u \in Range(selectedPersonas)
               THEN [tracker[u] EXCEPT !.commentCount = @ + 1,
                                       !.lastUsedIndex = postIndex]
               ELSE tracker[u]]
  IN  IF opJoins /\ Len(selectedPersonas) > 0
      THEN [tracker |-> [t1 EXCEPT ![postAuthor].commentCount = @ + 1],
            selected |-> Append(selectedPersonas, postAuthor)]
      ELSE [tracker |-> t1, selected |-> selectedPersonas]

\* Mutation: 3 to 5 commenters are drawn.
selectCommentAuthorsThreeToFive(tracker, personas, postAuthor, postIndex, rCount, opJoins) ==
  LET availablePersonas == SelectSeq(personas, LAMBDA p : p # postAuthor)
      commentCount == Min(3 + rCount, Len(availablePersonas))
      order == stableSort([k \in 1..Len(availablePersonas) |->
                 <<tracker[availablePersonas[k]].commentCount,
                   tracker[availablePersonas[k]].lastUsedIndex>>])
      selectedPersonas == [p \in 1..commentCount |-> availablePersonas[order[p]]]
      t1 == [u \in DOMAIN tracker |->
               IF u \in Range(selectedPersonas)
               THEN [tracker[u] EXCEPT !.commentCount = @ + 1,
                                       !.lastUsedIndex = postIndex]
               ELSE tracker[u]]
  IN  IF Len(availablePersonas) = 0
      THEN [tracker |-> tracker, selected |-> <<postAuthor>>]
      ELSE IF opJoins /\ Len(selectedPersonas) > 0
      THEN [tracker |-> [t1 EXCEPT ![postAuthor].commentCount = @ + 1],
            selected |-> Append(selectedPersonas, postAuthor)]
      ELSE [tracker |-> t1, selected |-> selectedPersonas]

\* Mutation: the post author is put in front of the selected commenters.
selectCommentAuthorsAuthorFirst(tracker, personas, postAuthor, postIndex, rCount, opJoins) ==
  LET availablePersonas == SelectSeq(personas, LAMBDA p : p # postAuthor)
      commentCount == Min(2 + rCount, Len(availablePersonas))
      order == stableSort([k \in 1..Len(availablePersonas) |->
                 <<tracker[availablePersonas[k]].commentCount,
                   tracker[availablePersonas[k]].lastUsedIndex>>])
      selectedPersonas == [p \in 1..commentCount |-> availablePersonas[order[p]]]
      t1 == [u \in DOMAIN tracker |->
               IF u \in Range(selectedPersonas)
               THEN [tracker[u] EXCEPT !.commentCount = @ + 1,
                                       !.lastUsedIndex = postIndex]
               ELSE tracker[u]]
  IN  IF Len(availablePersonas) = 0
      THEN [tracker |-> tracker, selected |-> <<postAuthor>>]
      ELSE IF opJoins /\ Len(selectedPersonas) > 0
      THEN [tracker |-> [t1 EXCEPT ![postAuthor].commentCount = @ + 1],
            selected |-> <<postAuthor>> \o selectedPersonas]
      ELSE [tracker |-> t1, selected |-> selectedPersonas]

\* rCount : Math.floor(Math.random() * 3),  opJoins : Math.random() < 0.7
selectCommentAuthors(tracker, personas, postAuthor, postIndex, rCount, opJoins) ==
  LET availablePersonas == SelectSeq(personas, LAMBDA p : p # postAuthor)
      commentCount == Min(2 + rCount, Len(availablePersonas))
      order == stableSort([k \in 1..Len(availablePersonas) |->
                 <<tracker[availablePersonas[k]].commentCount,
                   tracker[availablePersonas[k]].lastUsedIndex>>])
      selectedPersonas == [p \in 1..commentCount |-> availablePersonas[order[p]]]
      t1 == [u \in DOMAIN tracker |->
               IF u \in Range(selectedPersonas)
               THEN [tracker[u] EXCEPT !.commentCount = @ + 1,
                                       !.lastUsedIndex = postIndex]
               ELSE tracker[u]]
  IN  IF Len(availablePersonas) = 0
      THEN [tracker |-> tracker, selected |-> <<postAuthor>>]
      ELSE IF opJoins /\ Len(selectedPersonas) > 0
      THEN [tracker |-> [t1 EXCEPT ![postAuthor].commentCount = @ + 1],
            selected |-> Append(selectedPersonas, postAuthor)]
      ELSE [tracker |-> t1, selected |-> selectedPersonas]

\* ------------------------------------------------------------------------
\* Comment planning (ContentGenerator.createCommentPlans)
\* rnd.reply   : Math.random() < 0.6, drawn when i = 1
\* rnd.mention : the outcome of the shouldMentionProduct draw of each
\*               position (Math.random() < 0.7, < 0.3, < 0.4)
\* The parent of a reply is the literal id `C1`.
\* ------------------------------------------------------------------------
\* Mutation: the reply draw is also made for the first plan (i <= 1).
createCommentPlanReplyAtZero(persona, i, postAuthor, rnd) ==
  IF i <= 1 /\ rnd.reply
  THEN [position |-> "reply", author |-> persona, parentCommentId |-> 1,
        shouldMentionProduct |-> rnd.mention[2], timingOffset |-> "+16min"]
  ELSE IF i = 0
  THEN [position |-> "first", author |-> persona, parentCommentId |-> 0,
        shouldMentionProduct |-> rnd.mention[1], timingOffset |-> "+21min"]
  ELSE IF persona = postAuthor
  THEN [position |-> "reply", author |-> persona, parentCommentId |-> 1,
        shouldMentionProduct |-> FALSE, timingOffset |-> "+16min"]
  ELSE [position |-> "late", author |-> persona, parentCommentId |-> 0,
        shouldMentionProduct |-> rnd.mention[i + 1], timingOffset |-> "+2h"]

createCommentPlan(persona, i, postAuthor, rnd) ==
  IF i = 0
  THEN [position |-> "first", author |-> persona, parentCommentId |-> 0,
        shouldMentionProduct |-> rnd.mention[1], timingOffset |-> "+21min"]
  ELSE IF i = 1 /\ rnd.reply
  THEN [position |-> "reply", author |-> persona, parentCommentId |-> 1,
        shouldMentionProduct |-> rnd.mention[2], timingOffset |-> "+16min"]
  ELSE IF persona = postAuthor
  THEN [position |-> "reply", author |-> persona, parentCommentId |-> 1,
        shouldMentionProduct |-> FALSE, timingOffset |-> "+16min"]
  ELSE [position |-> "late", author |-> persona, parentCommentId |-> 0,
        shouldMentionProduct |-> rnd.mention[i + 1], timingOffset |-> "+2h"]

\* Mutation: every plan is given the first of the selected personas.
createCommentPlansOneAuthor(personas, targetCount, postAuthor, rnd) ==
  LET actualCount == Min(targetCount, Len(personas))
  IN  [k \in 1..actualCount |-> createCommentPlan(personas[1], k - 1, postAuthor, rnd)]

createCommentPlans(personas, targetCount, postAuthor, rnd) ==
  LET actualCount == Min(targetCount, Len(personas))
  IN  [k \in 1..actualCount |-> createCommentPlan(personas[k], k - 1, postAuthor, rnd)]

\* ------------------------------------------------------------------------
\* Validators (lib/algorithm/validators.ts)
\* A message is a tuple: its kind followed by the values the text names.
\* ------------------------------------------------------------------------
\* The concatenation of the sequences ss[1], ..., ss[n].
RECURSIVE concatUpTo(_, _)
concatUpTo(ss, n) == IF n = 0 THEN <<>> ELSE concatUpTo(ss, n - 1) \o ss[n]

flatten(ss) == let(ss, LAMBDA v : concatUpTo(v, Len(v)))

\* The keys of a Map filled by iterating over s, in insertion order: the
\* elements of s in the order of their first occurrences.
mapKeys(s) ==
  let({k \in 1..Len(s) : \A m \in 1..(k - 1) : s[m] # s[k]},
      LAMBDA firsts :
        [p \in 1..Cardinality(firsts) |->
           s[CHOOSE k \in firsts : Cardinality({m \in firsts : m < k}) = p - 1]])

countOf(s, x) == Cardinality({k \in 1..Len(s) : s[k] = x})

result(errors, warnings) ==
  [isValid |-> Len(errors) = 0, errors |-> errors, warnings |-> warnings]

\* Mutation: a subreddit is reported only from its third post on.
validateNoOverpostingOverTwo(posts) ==
  LET subs == [k \in 1..Len(posts) |-> posts[k].subreddit]
      keys == mapKeys(subs)
      errors == flatten([k \in 1..Len(keys) |->
                  IF countOf(subs, keys[k]) > 2
                  THEN <<(<<"overposting", keys[k], countOf(subs, keys[k])>>)>>
                  ELSE <<>>])
  IN  result(errors, <<>>)

validateNoOverposting(posts) ==
  LET subs == [k \in 1..Len(posts) |-> posts[k].subreddit]
      keys == mapKeys(subs)
      errors == flatten([k \in 1..Len(keys) |->
                  IF countOf(subs, keys[k]) > 1
                  THEN <<(<<"overposting", keys[k], countOf(subs, keys[k])>>)>>
                  ELSE <<>>])
  IN  result(errors, <<>>)

\* A title is a sequence of words, a word is [stem, len, upper]: what
\* split(/\s+/) yields, the number of characters of the word, and whether it
\* is written with upper-case letters.
toLowerCase(title) == [k \in 1..Len(title) |-> [title[k] EXCEPT !.upper = FALSE]]

\* The similarity is the fraction <<numerator, denominator>>.
calculateTextSimilarity(text1, text2) ==
  LET words1 == {w \in Range(text1) : w.len > 3}
      words2 == {w \in Range(text2) : w.len > 3}
      intersection == {w \in words1 : w \in words2}
      union == words1 \cup words2
  IN  IF words1 = {} /\ words2 = {} THEN <<1, 1>>
      ELSE IF words1 = {} \/ words2 = {} THEN <<0, 1>>
      ELSE <<Cardinality(intersection), Cardinality(union)>>

\* similarity > 0.7 and similarity > 0.5
\* Mutation: a similarity of exactly 0.7 counts as above 0.7.
from70(sim) == 10 * sim[1] >= 7 * sim[2]

above70(sim) == 10 * sim[1] > 7 * sim[2]
above50(sim) == 2 * sim[1] > sim[2]

postPairs(posts) ==
  LET n == Len(posts)
      all == [k \in 1..(n * n) |-> <<((k - 1) \div n) + 1, ((k - 1) % n) + 1>>]
  IN  SelectSeq(all, LAMBDA pr : pr[1] < pr[2])

validateTopicDiversity(posts) ==
  LET sim(pr) == calculateTextSimilarity(toLowerCase(posts[pr[1]].title),
                                         toLowerCase(posts[pr[2]].title))
      errors(pairs) == flatten([k \in 1..Len(pairs) |->
                  IF above70(sim(pairs[k]))
                  THEN <<(<<"too similar", posts[pairs[k][1]].post_id,
                            posts[pairs[k][2]].post_id, sim(pairs[k])>>)>>
                  ELSE <<>>])
      warnings(pairs) == flatten([k \in 1..Len(pairs) |->
                  IF ~above70(sim(pairs[k])) /\ above50(sim(pairs[k]))
                  THEN <<(<<"moderate similarity", posts[pairs[k][1]].post_id,
                            posts[pairs[k][2]].post_id, sim(pairs[k])>>)>>
                  ELSE <<>>])
  IN  let(postPairs(posts), LAMBDA pairs : result(errors(pairs), warnings(pairs)))

\* posts.find(p => p.post_id === id) and comments.find(c => c.comment_id === id):
\* the index of the first match, 0 when there is none.
findPost(posts, id) ==
  IF \E k \in 1..Len(posts) : posts[k].post_id = id
  THEN CHOOSE k \in 1..Len(posts) :
         posts[k].post_id = id /\ \A m \in 1..(k - 1) : posts[m].post_id # id
  ELSE 0

findComment(comments, id) ==
  IF \E k \in 1..Len(comments) : comments[k].comment_id = id
  THEN CHOOSE k \in 1..Len(comments) :
         comments[k].comment_id = id /\ \A m \in 1..(k - 1) : comments[m].comment_id # id
  ELSE 0

validateTimestamps(posts, comments) ==
  LET postErrors(post) ==
        IF getHours(post.timestamp) >= 2 /\ getHours(post.timestamp) < 5
        THEN <<(<<"unrealistic timestamp", post.post_id, getHours(post.timestamp)>>)>>
        ELSE <<>>
      postWarnings(post) ==
        IF getHours(post.timestamp) < 6
        THEN <<(<<"unusual timestamp", post.post_id, getHours(post.timestamp)>>)>>
        ELSE <<>>
      timeErrors(c, post) ==
        IF ~isValidCommentTime(post.timestamp, c.timestamp)
        THEN IF c.timestamp - post.timestamp < 0
             THEN <<(<<"before its post", c.comment_id, post.timestamp - c.timestamp>>)>>
             ELSE <<(<<"too late", c.comment_id, c.timestamp - post.timestamp>>)>>
        ELSE <<>>
      parentErrors(c) ==
        IF c.parent_comment_id # 0
        THEN IF findComment(comments, c.parent_comment_id) = 0
             THEN <<(<<"non-existent parent", c.comment_id, c.parent_comment_id>>)>>
             ELSE IF c.timestamp
                       - comments[findComment(comments, c.parent_comment_id)].timestamp < 0
             THEN <<(<<"before its parent", c.comment_id>>)>>
             ELSE <<>>
        ELSE <<>>
      parentWarnings(c) ==
        IF c.parent_comment_id # 0 /\ findComment(comments, c.parent_comment_id) # 0
        THEN LET replyTime ==
                   c.timestamp
                     - comments[findComment(comments, c.parent_comment_id)].timestamp
             IN  IF replyTime >= 0 /\ replyTime < 1
                 THEN <<(<<"replies too quickly", c.comment_id, replyTime>>)>>
                 ELSE <<>>
        ELSE <<>>
      commentErrors(c) ==
        IF findPost(posts, c.post_id) = 0
        THEN <<(<<"non-existent post", c.comment_id, c.post_id>>)>>
        ELSE timeErrors(c, posts[findPost(posts, c.post_id)]) \o parentErrors(c)
      commentWarnings(c) ==
        IF findPost(posts, c.post_id) = 0 THEN <<>> ELSE parentWarnings(c)
      errors == flatten([k \in 1..Len(posts) |-> postErrors(posts[k])])
                \o flatten([k \in 1..Len(comments) |-> commentErrors(comments[k])])
      warnings == flatten([k \in 1..Len(posts) |-> postWarnings(posts[k])])
                \o flatten([k \in 1..Len(comments) |-> commentWarnings(comments[k])])
  IN  result(errors, warnings)

\* personaStats: the usernames that have content, sorted by descending count
\* (stable), each with its count; percentage > p is count * 100 > p * total.
statsOfCounts(counts) ==
  LET order == stableSort([k \in 1..Len(counts) |-> <<0 - counts[k].count, 0>>])
  IN  [p \in 1..Len(counts) |-> counts[order[p]]]

personaCountsOf(names) ==
  let(mapKeys(names),
      LAMBDA keys : [k \in 1..Len(keys) |->
                       [username |-> keys[k], count |-> countOf(names, keys[k])]])

personaStatsOf(posts, comments) ==
  let(let([k \in 1..Len(posts) |-> posts[k].author_username]
            \o [k \in 1..Len(comments) |-> comments[k].username],
          personaCountsOf),
      statsOfCounts)

\* Mutation: the warning is also given when one persona alone has content.
distributionChecksWarningAlone(personaStats, totalContent) ==
  LET errors == IF Len(personaStats) > 0 /\ personaStats[1].count * 100 > 50 * totalContent
                THEN <<(<<"dominates", personaStats[1].username, personaStats[1].count>>)>>
                ELSE <<>>
      w40 == IF Len(personaStats) > 0 /\ personaStats[1].count * 100 > 40 * totalContent
             THEN <<(<<"high content share", personaStats[1].username,
                       personaStats[1].count>>)>>
             ELSE <<>>
      unused == SelectSeq(personaStats, LAMBDA st : st.count = 0)
      wUnused == IF Len(unused) > 0
                 THEN <<(<<"unused personas",
                           [k \in 1..Len(unused) |-> unused[k].username]>>)>>
                 ELSE <<>>
  IN  result(errors, w40 \o wUnused)

\* The checks made on the sorted statistics.
distributionChecks(personaStats, totalContent) ==
  LET errors == IF Len(personaStats) > 0 /\ personaStats[1].count * 100 > 50 * totalContent
                THEN <<(<<"dominates", personaStats[1].username, personaStats[1].count>>)>>
                ELSE <<>>
      w40 == IF Len(personaStats) > 1 /\ personaStats[1].count * 100 > 40 * totalContent
             THEN <<(<<"high content share", personaStats[1].username,
                       personaStats[1].count>>)>>
             ELSE <<>>
      unused == SelectSeq(personaStats, LAMBDA st : st.count = 0)
      wUnused == IF Len(unused) > 0
                 THEN <<(<<"unused personas",
                           [k \in 1..Len(unused) |-> unused[k].username]>>)>>
                 ELSE <<>>
  IN  result(errors, w40 \o wUnused)

\* Mutation: the statistics are sorted by ascending count, so the first
\* entry is the least active persona.
validatePersonaDistributionAscending(posts, comments) ==
  let(personaStatsOf(posts, comments),
      LAMBDA desc :
        distributionChecks([p \in 1..Len(desc) |-> desc[Len(desc) + 1 - p]],
                           Len(posts) + Len(comments)))

validatePersonaDistribution(posts, comments) ==
  let(personaStatsOf(posts, comments),
      LAMBDA personaStats :
        distributionChecks(personaStats, Len(posts) + Len(comments)))

validateCommentThreads(comments) ==
  LET errs(c) ==
        IF c.parent_comment_id # 0
        THEN (IF findComment(comments, c.parent_comment_id) = 0
              THEN <<(<<"non-existent parent", c.comment_id, c.parent_comment_id>>)>>
              ELSE <<>>)
             \o (IF c.comment_id = c.parent_comment_id
                 THEN <<(<<"references itself", c.comment_id>>)>>
                 ELSE <<>>)
        ELSE <<>>
  IN  result(flatten([k \in 1..Len(comments) |-> errs(comments[k])]), <<>>)

combineResults(results) ==
  [isValid |-> \A k \in 1..Len(results) : results[k].isValid,
   errors |-> flatten([k \in 1..Len(results) |-> results[k].errors]),
   warnings |-> flatten([k \in 1..Len(results) |-> results[k].warnings])]

combine(results) == let(results, combineResults)

\* Mutation: the persona-distribution check is left out of the list.
validateContentCalendarFour(posts, comments) ==
  combine(<<validateNoOverposting(posts),
            validateTopicDiversity(posts),
            validateTimestamps(posts, comments),
            validateCommentThreads(comments)>>)

validateContentCalendar(posts, comments) ==
  combine(<<validateNoOverposting(posts),
            validateTopicDiversity(posts),
            validateTimestamps(posts, comments),
            validatePersonaDistribution(posts, comments),
            validateCommentThreads(comments)>>)

\* Mutation: each comment is compared with the time its post had before the
\* adjustment.
fixTimestampIssuesBeforeAdjusting(posts, comments) ==
  LET fixedPosts == [k \in 1..Len(posts) |->
                      [posts[k] EXCEPT !.timestamp = adjustToBusinessHours(@)]]
      fixComment(c) ==
        LET p == findPost(posts, c.post_id)
        IN  IF p # 0 /\ c.timestamp < posts[p].timestamp
            THEN [c EXCEPT !.timestamp = posts[p].timestamp + 15]
            ELSE c
  IN  [posts |-> fixedPosts,
       comments |-> [k \in 1..Len(comments) |-> fixComment(comments[k])]]

\* Mutation: a reply that is earlier than its parent is moved to 5 minutes
\* after the parent.
fixTimestampIssuesOrderingReplies(posts, comments) ==
  LET fixedPosts == [k \in 1..Len(posts) |->
                      [posts[k] EXCEPT !.timestamp = adjustToBusinessHours(@)]]
      fixComment(c) ==
        LET p == findPost(fixedPosts, c.post_id)
            q == findComment(comments, c.parent_comment_id)
        IN  IF p # 0 /\ c.timestamp < fixedPosts[p].timestamp
            THEN [c EXCEPT !.timestamp = fixedPosts[p].timestamp + 15]
            ELSE IF q # 0 /\ c.timestamp < comments[q].timestamp
            THEN [c EXCEPT !.timestamp = comments[q].timestamp + 5]
            ELSE c
  IN  [posts |-> fixedPosts,
       comments |-> [k \in 1..Len(comments) |-> fixComment(comments[k])]]

\* fixTimestampIssues mutates both arrays in place: the posts first, then
\* each comment against the already adjusted post.
fixTimestampIssues(posts, comments) ==
  LET fixedPosts == [k \in 1..Len(posts) |->
                      [posts[k] EXCEPT !.timestamp = adjustToBusinessHours(@)]]
      fixComment(c) ==
        LET p == findPost(fixedPosts, c.post_id)
        IN  IF p # 0 /\ c.timestamp < fixedPosts[p].timestamp
            THEN [c EXCEPT !.timestamp = fixedPosts[p].timestamp + 15]
            ELSE c
  IN  [posts |-> fixedPosts,
       comments |-> [k \in 1..Len(comments) |-> fixComment(comments[k])]]

\* ------------------------------------------------------------------------
\* Inputs of a run and outcomes of the random draws
\* ------------------------------------------------------------------------
\* personaSchema / calendarInputSchema: at least 2 personas
MinPersonas == 2

\* Subreddit lists up to renaming: the k-th new name of a list is k.  A name
\* may occur twice (the schema does not forbid it).
SubredditLists ==
  {s \in UNION {[1..n -> 1..MaxSubreddits] : n \in 1..MaxSubreddits} :
     \A k \in 1..Len(s) : s[k] = 1 \/ \E m \in 1..(k - 1) : s[m] >= s[k] - 1}

\* The inputs of a run.  Each of the three lists is varied against the
\* shortest lists of the other two kinds: every subreddit list, every persona
\* count and every keyword count occurs, with every post count; the longest
\* persona lists occur in single-post runs.
BaseSubreddits == [k \in 1..MaxSubreddits |-> k]
BasePersonas == [k \in 1..MinPersonas |-> k]
BaseKeywords == <<1, 2>>

Inputs ==
  [subreddits : SubredditLists, postsPerWeek : 1..MaxPosts,
   personas : {BasePersonas}, keywords : {BaseKeywords}]
  \cup
  [subreddits : {BaseSubreddits}, postsPerWeek : 1..MaxPosts,
   personas : {[k \in 1..n |-> k] : n \in MinPersonas..MaxPersonas},
   keywords : {BaseKeywords}]
  \cup
  [subreddits : {BaseSubreddits}, postsPerWeek : 1..MaxPosts,
   personas : {BasePersonas},
   keywords : {[k \in 1..n |-> k] : n \in 1..MaxKeywords}]
  \cup
  [subreddits : {BaseSubreddits}, postsPerWeek : {1},
   personas : {[k \in 1..n |-> k] : n \in MinPersonas..MaxThreadPersonas},
   keywords : {BaseKeywords}]

\* Words and titles the text generator may return.
word(stem, len, upper) == [stem |-> stem, len |-> len, upper |-> upper]

Titles ==
  {<<word("best", 4, FALSE), word("slide", 5, FALSE), word("maker", 5, FALSE)>>,
   <<word("best", 4, TRUE), word("slide", 5, FALSE), word("ai", 2, FALSE)>>,
   <<word("deck", 4, FALSE), word("automation", 10, FALSE)>>}

\* Outcomes of the draws of generatePostTime: 09:00 and 20:59, each with and
\* without the weekend relocation.
PostTimeDraws ==
  {[relocate |-> rl, afternoon |-> FALSE, hour |-> d[1], minute |-> d[2]] :
     rl \in BOOLEAN, d \in {<<0, 0>>, <<11, 59>>}}

KeywordCountDraws == {2, 3}
FirstDelayDraws == {0, 44}
ReplyDelayDraws == {0, 24}
LateDelayDraws == {<<0, 0>>, <<4, 59>>}
CommentCountDraws == 0..2
OpJoinsDraws == BOOLEAN
PlanDraws ==
  [reply : BOOLEAN, mention : {[k \in 1..4 |-> b] : b \in BOOLEAN}]

\* ------------------------------------------------------------------------
\* reset() of the three strategies, and the fields of a ContentGenerator
\* ------------------------------------------------------------------------
subReset(tracker) == <<>>

\* Mutation: the recorded combinations are not cleared.
kwResetKeepsCombinations(kw) == [tracker |-> <<>>, combos |-> kw.combos]

kwReset(kw) == [tracker |-> <<>>, combos |-> {}]

pmReset(tracker) == <<>>

\* rot = [sub, kw, pm]: the three strategies of one generator.
resetAll(rot) == [sub |-> subReset(rot.sub), kw |-> kwReset(rot.kw), pm |-> pmReset(rot.pm)]

\* The strategies after the loop of createWeeklyPostPlan has run from
\* postIndex to the end; kc[k] is the keyword count drawn for post index k - 1.
RECURSIVE planRotators(_, _, _, _)
planRotators(rot, in, postIndex, kc) ==
  IF postIndex >= in.postsPerWeek THEN rot
  ELSE LET sub == selectSubreddit(rot.sub, in.subreddits, postIndex)
           kw == selectKeywordsForPost(rot.kw, in.keywords, postIndex, kc[postIndex + 1])
           author == selectPostAuthor(rot.pm, in.personas, postIndex)
       IN  planRotators([sub |-> sub.tracker,
                         kw |-> [tracker |-> kw.tracker, combos |-> kw.combos],
                         pm |-> author.tracker],
                        in, postIndex + 1, kc)

\* ------------------------------------------------------------------------
\* State
\* ------------------------------------------------------------------------
VARIABLES
  pc,                 \* where the generate call stands
  input,              \* the CalendarInput of the call
  subredditStrategy,  \* SubredditStrategy.usageTracker
  keywordStrategy,    \* KeywordStrategy: [tracker, combos]
  personaMatcher,     \* PersonaMatcher.usageTracker
  postPlans,          \* PostPlan[]
  posts,              \* GeneratedPost[]
  allComments,        \* GeneratedComment[]
  commentIdCounter,
  i,                  \* index of the post whose thread is being generated
  commentPlans,       \* CommentPlan[] of post i
  j,                  \* index of the next comment plan
  requests,           \* the calls made to the text generator, in order
  error,              \* "none", "generation" or "validation"
  validation,         \* the ValidationResult of phase 4
  calendar,           \* the ContentCalendar returned
  runs,               \* number of generate calls made on the generator
  dateCall,           \* the call made to a date utility on its own: [fn, args]
  dateResult,         \* what that call returned
  validatorCall,      \* the call made to a validator on its own: [fn, args]
  validatorResult,    \* what that call returned
  matcherCall,        \* the call made to a PersonaMatcher on its own: [fn, args]
  matcherResult       \* what that call returned

vars == <<pc, input, subredditStrategy, keywordStrategy, personaMatcher,
          postPlans, posts, allComments, commentIdCounter, i, commentPlans, j,
          requests, error, validation, calendar, runs, dateCall, dateResult, validatorCall, validatorResult, matcherCall, matcherResult>>

NoInput == [subreddits |-> <<>>, postsPerWeek |-> 0, personas |-> <<>>, keywords |-> <<>>]
NoValidation == [isValid |-> TRUE, errors |-> <<>>, warnings |-> <<>>]
NoCalendar == [posts |-> <<>>, comments |-> <<>>]
Finished == pc \in {"returned", "failed"}

NoCall == [fn |-> "none", args |-> <<>>]

\* State after `new ContentGenerator(aiService)`.
Init ==
  /\ pc = "idle"
  /\ input = NoInput
  /\ subredditStrategy = <<>>
  /\ keywordStrategy = [tracker |-> <<>>, combos |-> {}]
  /\ personaMatcher = <<>>
  /\ postPlans = <<>>
  /\ posts = <<>>
  /\ allComments = <<>>
  /\ commentIdCounter = 1
  /\ i = 0
  /\ commentPlans = <<>>
  /\ j = 0
  /\ requests = <<>>
  /\ error = "none"
  /\ validation = NoValidation
  /\ calendar = NoCalendar
  /\ runs = 0
  /\ dateCall = NoCall
  /\ dateResult = <<>>
  /\ validatorCall = NoCall
  /\ validatorResult = <<>>
  /\ matcherCall = NoCall
  /\ matcherResult = <<>>

\* ------------------------------------------------------------------------
\* generate: reset of the strategies (phase 0)
\* ------------------------------------------------------------------------
generate ==
  /\ pc = "idle"
  /\ \E in \in Inputs : input' = in
  /\ subredditStrategy' = subReset(subredditStrategy)
  /\ keywordStrategy' = kwReset(keywordStrategy)
  /\ personaMatcher' = pmReset(personaMatcher)
  /\ runs' = runs + 1
  /\ pc' = "plan"
  /\ UNCHANGED <<dateCall, dateResult, validatorCall, validatorResult, matcherCall, matcherResult, postPlans, posts, allComments, commentIdCounter, i,
                 commentPlans, j, requests, error, validation, calendar>>

\* ------------------------------------------------------------------------
\* Phase 1: one iteration of the loop of createWeeklyPostPlan
\* ------------------------------------------------------------------------
createWeeklyPostPlan ==
  /\ pc = "plan"
  /\ LET postIndex == Len(postPlans)
         sub == selectSubreddit(subredditStrategy, input.subreddits, postIndex)
         author == selectPostAuthor(personaMatcher, input.personas, postIndex)
     IN  \E keywordCount \in KeywordCountDraws, rnd \in PostTimeDraws :
           LET kw == selectKeywordsForPost(keywordStrategy, input.keywords,
                                           postIndex, keywordCount)
               plan == [postIndex |-> postIndex,
                        subreddit |-> sub.selected,
                        author |-> author.selected,
                        timestamp |-> generatePostTime(getCurrentWeekStart, postIndex,
                                                       input.postsPerWeek, rnd),
                        keywords |-> kw.selected]
           IN  /\ subredditStrategy' = sub.tracker
               /\ keywordStrategy' = [tracker |-> kw.tracker, combos |-> kw.combos]
               /\ personaMatcher' = author.tracker
               /\ postPlans' = Append(postPlans, plan)
               /\ pc' = IF postIndex + 1 < input.postsPerWeek THEN "plan" ELSE "posts"
  /\ UNCHANGED <<runs, dateCall, dateResult, validatorCall, validatorResult, matcherCall, matcherResult, input, posts, allComments, commentIdCounter, i, commentPlans, j,
                 requests, error, validation, calendar>>

\* ------------------------------------------------------------------------
\* Phase 2: one iteration of the loop of generatePosts
\* ------------------------------------------------------------------------
\* A call made to the text generator: what was asked, for which slot (post
\* id and, for a comment, index of the comment plan), and whether it resolved.
postRequest(plan, ok) ==
  [kind |-> "post", persona |-> plan.author, post |-> plan.postIndex + 1,
   index |-> 0, position |-> "post", parent |-> 0, ok |-> ok]

\* Mutation: the comments are started as soon as one post exists.
afterPostStartsThread == "thread"

\* Position after the post of the current plan is recorded: the loop over
\* the plans goes on until every plan has its post.
afterPost == IF Len(posts) + 1 < Len(postPlans) THEN "posts" ELSE "thread"

\* Mutation: the keywords of a post are selected again when its text is
\* requested, after the planning step.
generatePostsOkSelectingKeywords ==
  /\ pc = "posts"
  /\ LET plan == postPlans[Len(posts) + 1]
         kw == selectKeywordsForPost(keywordStrategy, input.keywords, plan.postIndex, 2)
     IN  \E title \in Titles :
           /\ posts' = Append(posts, [post_id |-> plan.postIndex + 1,
                                      subreddit |-> plan.subreddit,
                                      title |-> title,
                                      author_username |-> plan.author,
                                      timestamp |-> plan.timestamp,
                                      keyword_ids |-> kw.selected])
           /\ keywordStrategy' = [tracker |-> kw.tracker, combos |-> kw.combos]
           /\ requests' = Append(requests, postRequest(plan, TRUE))
           /\ pc' = afterPost
  /\ UNCHANGED <<runs, dateCall, dateResult, validatorCall, validatorResult, matcherCall, matcherResult, input, subredditStrategy, personaMatcher, postPlans,
                 allComments, commentIdCounter, i, commentPlans, j, error,
                 validation, calendar>>

generatePostsOk ==
  /\ pc = "posts"
  /\ LET plan == postPlans[Len(posts) + 1]
     IN  \E title \in Titles :
           /\ posts' = Append(posts, [post_id |-> plan.postIndex + 1,
                                      subreddit |-> plan.subreddit,
                                      title |-> title,
                                      author_username |-> plan.author,
                                      timestamp |-> plan.timestamp,
                                      keyword_ids |-> plan.keywords])
           /\ requests' = Append(requests, postRequest(plan, TRUE))
           /\ pc' = afterPost
  /\ UNCHANGED <<runs, dateCall, dateResult, validatorCall, validatorResult, matcherCall, matcherResult, input, subredditStrategy, keywordStrategy, personaMatcher, postPlans,
                 allComments, commentIdCounter, i, commentPlans, j, error,
                 validation, calendar>>

\* aiService.generatePost rejects: the catch block logs and rethrows.
generatePostsThrow ==
  /\ pc = "posts"
  /\ requests' = Append(requests, postRequest(postPlans[Len(posts) + 1], FALSE))
  /\ error' = "generation"
  /\ pc' = "failed"
  /\ UNCHANGED <<runs, dateCall, dateResult, validatorCall, validatorResult, matcherCall, matcherResult, input, subredditStrategy, keywordStrategy, personaMatcher, postPlans,
                 posts, allComments, commentIdCounter, i, commentPlans, j,
                 validation, calendar>>

\* ------------------------------------------------------------------------
\* Phase 3: generateComments.  planThread is the head of the outer loop
\* (comment count, commenters, comment plans) for post i.
\* ------------------------------------------------------------------------
\* Mutation: the comment counter is restarted for every post.
planThreadRestartingCounter ==
  /\ pc = "thread"
  /\ LET plan == postPlans[i + 1]
     IN  \E rTarget \in CommentCountDraws, rCount \in CommentCountDraws,
            opJoins \in OpJoinsDraws, rnd \in PlanDraws :
           LET commentCount == 2 + rTarget
               commenting == selectCommentAuthors(personaMatcher, input.personas,
                                                  plan.author, i, rCount, opJoins)
           IN  /\ personaMatcher' = commenting.tracker
               /\ commentPlans' = createCommentPlans(commenting.selected, commentCount,
                                                     plan.author, rnd)
  /\ j' = 0
  /\ commentIdCounter' = 1
  /\ pc' = "comments"
  /\ UNCHANGED <<runs, dateCall, dateResult, validatorCall, validatorResult, matcherCall, matcherResult, input, subredditStrategy, keywordStrategy, postPlans, posts,
                 allComments, i, requests, error, validation, calendar>>

planThread ==
  /\ pc = "thread"
  /\ LET plan == postPlans[i + 1]
     IN  \E rTarget \in CommentCountDraws, rCount \in CommentCountDraws,
            opJoins \in OpJoinsDraws, rnd \in PlanDraws :
           LET commentCount == 2 + rTarget
               commenting == selectCommentAuthors(personaMatcher, input.personas,
                                                  plan.author, i, rCount, opJoins)
           IN  /\ personaMatcher' = commenting.tracker
               /\ commentPlans' = createCommentPlans(commenting.selected, commentCount,
                                                     plan.author, rnd)
  /\ j' = 0
  /\ pc' = "comments"
  /\ UNCHANGED <<runs, dateCall, dateResult, validatorCall, validatorResult, matcherCall, matcherResult, input, subredditStrategy, keywordStrategy, postPlans, posts,
                 allComments, commentIdCounter, i, requests, error, validation, calendar>>

commentRequest(post, commentPlan, parentIx, ok) ==
  [kind |-> "comment", persona |-> commentPlan.author, post |-> post.post_id,
   index |-> j, position |-> commentPlan.position,
   parent |-> IF parentIx = 0 THEN 0 ELSE allComments[parentIx].comment_id,
   ok |-> ok]

\* Position of the loops after the comment plan j of post i is done.
nextPc == IF j + 1 < Len(commentPlans) THEN "comments"
          ELSE IF i + 1 < Len(posts) THEN "thread" ELSE "validate"

generateCommentsOk ==
  /\ pc = "comments"
  /\ LET post == posts[i + 1]
         commentPlan == commentPlans[j + 1]
         parentIx == IF commentPlan.parentCommentId # 0
                     THEN findComment(allComments, commentPlan.parentCommentId)
                     ELSE 0
     IN  \E r1 \in FirstDelayDraws, r2 \in ReplyDelayDraws, r3 \in LateDelayDraws :
           LET commentTimestamp ==
                 IF commentPlan.position = "first"
                 THEN generateFirstCommentTime(post.timestamp, r1)
                 ELSE IF commentPlan.position = "reply" /\ parentIx # 0
                 THEN generateReplyCommentTime(allComments[parentIx].timestamp, r2)
                 ELSE generateLateCommentTime(post.timestamp, r3[1], r3[2])
           IN  /\ allComments' = Append(allComments,
                                   [comment_id |-> commentIdCounter,
                                    post_id |-> post.post_id,
                                    parent_comment_id |-> commentPlan.parentCommentId,
                                    username |-> commentPlan.author,
                                    timestamp |-> commentTimestamp])
               /\ requests' = Append(requests, commentRequest(post, commentPlan, parentIx, TRUE))
  /\ commentIdCounter' = commentIdCounter + 1
  /\ j' = IF j + 1 < Len(commentPlans) THEN j + 1 ELSE 0
  /\ i' = IF j + 1 < Len(commentPlans) THEN i ELSE i + 1
  /\ commentPlans' = IF j + 1 < Len(commentPlans) THEN commentPlans ELSE <<>>
  /\ pc' = nextPc
  /\ UNCHANGED <<runs, dateCall, dateResult, validatorCall, validatorResult, matcherCall, matcherResult, input, subredditStrategy, keywordStrategy, personaMatcher, postPlans,
                 posts, error, validation, calendar>>

\* Mutation: the catch block logs the error and does not rethrow it, so the
\* loop goes on with the next comment plan.
generateCommentsSwallow ==
  /\ pc = "comments"
  /\ LET commentPlan == commentPlans[j + 1]
         parentIx == IF commentPlan.parentCommentId # 0
                     THEN findComment(allComments, commentPlan.parentCommentId)
                     ELSE 0
     IN  requests' = Append(requests,
                            commentRequest(posts[i + 1], commentPlan, parentIx, FALSE))
  /\ j' = IF j + 1 < Len(commentPlans) THEN j + 1 ELSE 0
  /\ i' = IF j + 1 < Len(commentPlans) THEN i ELSE i + 1
  /\ commentPlans' = IF j + 1 < Len(commentPlans) THEN commentPlans ELSE <<>>
  /\ pc' = nextPc
  /\ UNCHANGED <<runs, dateCall, dateResult, validatorCall, validatorResult, matcherCall, matcherResult, input, subredditStrategy, keywordStrategy, personaMatcher, postPlans,
                 posts, allComments, commentIdCounter, error, validation, calendar>>

\* aiService.generateComment rejects: the catch block logs and rethrows.
generateCommentsThrow ==
  /\ pc = "comments"
  /\ LET commentPlan == commentPlans[j + 1]
         parentIx == IF commentPlan.parentCommentId # 0
                     THEN findComment(allComments, commentPlan.parentCommentId)
                     ELSE 0
     IN  requests' = Append(requests,
                            commentRequest(posts[i + 1], commentPlan, parentIx, FALSE))
  /\ error' = "generation"
  /\ pc' = "failed"
  /\ UNCHANGED <<runs, dateCall, dateResult, validatorCall, validatorResult, matcherCall, matcherResult, input, subredditStrategy, keywordStrategy, personaMatcher, postPlans,
                 posts, allComments, commentIdCounter, i, commentPlans, j,
                 validation, calendar>>

\* ------------------------------------------------------------------------
\* Phases 4 and 5: auto-fix, validation, assembly
\* ------------------------------------------------------------------------
\* Mutation: the calendar is assembled without its first post.
assembleWithoutFirstPost(ps, cs) == [posts |-> Tail(ps), comments |-> cs]

assemble(ps, cs) == [posts |-> ps, comments |-> cs]

validateAndAssemble ==
  /\ pc = "validate"
  /\ \E fixed \in {fixTimestampIssues(posts, allComments)} :
     \E v \in {validateContentCalendar(fixed.posts, fixed.comments)} :
         /\ posts' = fixed.posts
         /\ allComments' = fixed.comments
         /\ validation' = v
         /\ IF ~v.isValid
            THEN /\ error' = "validation"
                 /\ pc' = "failed"
                 /\ calendar' = calendar
            ELSE /\ error' = error
                 /\ pc' = "returned"
                 /\ calendar' = assemble(fixed.posts, fixed.comments)
  /\ UNCHANGED <<runs, dateCall, dateResult, validatorCall, validatorResult, matcherCall, matcherResult, input, subredditStrategy, keywordStrategy, personaMatcher, postPlans,
                 commentIdCounter, i, commentPlans, j, requests>>

Next ==
  \/ generate
  \/ createWeeklyPostPlan
  \/ generatePostsOk
  \/ generatePostsThrow
  \/ planThread
  \/ generateCommentsOk
  \/ generateCommentsThrow
  \/ validateAndAssemble

Spec == Init /\ [][Next]_vars

\* ------------------------------------------------------------------------
\* generate called again on the same ContentGenerator after a call has
\* returned or thrown: the locals are new, the strategies are reset.
\* ------------------------------------------------------------------------
generateAgain ==
  /\ Finished
  /\ runs < MaxRuns
  /\ \E in \in Inputs : input' = in
  /\ subredditStrategy' = subReset(subredditStrategy)
  /\ keywordStrategy' = kwReset(keywordStrategy)
  /\ personaMatcher' = pmReset(personaMatcher)
  /\ postPlans' = <<>>
  /\ posts' = <<>>
  /\ allComments' = <<>>
  /\ commentIdCounter' = 1
  /\ i' = 0
  /\ commentPlans' = <<>>
  /\ j' = 0
  /\ requests' = <<>>
  /\ error' = "none"
  /\ validation' = NoValidation
  /\ calendar' = NoCalendar
  /\ runs' = runs + 1
  /\ pc' = "plan"
  /\ UNCHANGED <<dateCall, dateResult, validatorCall, validatorResult, matcherCall, matcherResult>>

NextRerun ==
  \/ generate
  \/ createWeeklyPostPlan
  \/ generatePostsOk
  \/ generatePostsThrow
  \/ planThread
  \/ generateCommentsOk
  \/ generateCommentsThrow
  \/ validateAndAssemble
  \/ generateAgain

SpecRerun == Init /\ [][NextRerun]_vars

\* ------------------------------------------------------------------------
\* Two generate calls on one ContentGenerator.  The variables hold the
\* locals of the first call; the strategies are fields of the generator, so
\* the second call works on the same three objects.  The second call runs
\* while the first is suspended at an await (a call to the text generator
\* or a sleep): its reset and its planning loop are synchronous, so they
\* happen in one step.
\* ------------------------------------------------------------------------
OverlapInputs ==
  [subreddits : {BaseSubreddits}, postsPerWeek : 1..MaxPosts,
   personas : {[k \in 1..MaxPersonas |-> k]}, keywords : {BaseKeywords}]

\* The first call asks for one post; the second call for any number.
generateOnShared ==
  /\ pc = "idle"
  /\ \E in \in {o \in OverlapInputs : o.postsPerWeek = 1} : input' = in
  /\ subredditStrategy' = subReset(subredditStrategy)
  /\ keywordStrategy' = kwReset(keywordStrategy)
  /\ personaMatcher' = pmReset(personaMatcher)
  /\ runs' = runs + 1
  /\ pc' = "plan"
  /\ UNCHANGED <<dateCall, dateResult, validatorCall, validatorResult, matcherCall, matcherResult, postPlans, posts, allComments, commentIdCounter, i,
                 commentPlans, j, requests, error, validation, calendar>>

otherGenerate ==
  /\ pc \in {"posts", "thread", "comments", "validate"}
  /\ \E in \in OverlapInputs, kc \in [1..MaxPosts -> KeywordCountDraws] :
       \E rot \in {planRotators(resetAll([sub |-> subredditStrategy,
                                          kw |-> keywordStrategy,
                                          pm |-> personaMatcher]), in, 0, kc)} :
         /\ subredditStrategy' = rot.sub
         /\ keywordStrategy' = rot.kw
         /\ personaMatcher' = rot.pm
  /\ UNCHANGED <<runs, dateCall, dateResult, validatorCall, validatorResult, matcherCall, matcherResult, pc, input, postPlans, posts, allComments,
                 commentIdCounter, i, commentPlans, j, requests, error, validation,
                 calendar>>

NextOverlap ==
  \/ generateOnShared
  \/ createWeeklyPostPlan
  \/ generatePostsOk
  \/ generatePostsThrow
  \/ planThread
  \/ generateCommentsOk
  \/ generateCommentsThrow
  \/ validateAndAssemble
  \/ otherGenerate

SpecOverlap == Init /\ [][NextOverlap]_vars

\* ------------------------------------------------------------------------
\* The date utilities called on their own (lib/utils/date.ts)
\* dateCall is the call, with the outcomes of its Math.random draws among the
\* arguments; dateResult lists the values returned so far.
\* ------------------------------------------------------------------------
DateSampleDays == 2
MaxPostsPerWeek == 7

\* Every minute of the first DateSampleDays days.
DateSamples == 0..(DateSampleDays * 24 * 60 - 1)

\* Monday 00:00, Wednesday 15:30 and the Sunday of the next week at 23:59.
WeekStartSamples == {0, 2 * 24 * 60 + 15 * 60 + 30, 13 * 24 * 60 + 23 * 60 + 59}

\* Post times: Monday 09:00, Wednesday 14:00, Sunday 20:59, and 23:59 of the
\* Monday after the week.
PostTimeSamples ==
  {9 * 60, 2 * 24 * 60 + 14 * 60, 6 * 24 * 60 + 20 * 60 + 59, 7 * 24 * 60 + 23 * 60 + 59}

\* Every outcome of the draws of generatePostTime.
AllPostTimeDraws ==
  {[relocate |-> rl, afternoon |-> af, hour |-> h, minute |-> m] :
     rl \in BOOLEAN, af \in {TRUE}, h \in 0..3, m \in 0..59}
  \cup
  {[relocate |-> rl, afternoon |-> af, hour |-> h, minute |-> m] :
     rl \in BOOLEAN, af \in {FALSE}, h \in 0..11, m \in 0..59}

\* Math.floor(Math.random() * 45)
AllFirstDelayDraws == 0..44

\* Math.floor(Math.random() * 5) and Math.floor(Math.random() * 60)
AllLateHourDraws == 0..4
AllLateMinuteDraws == 0..59

\* Differences from a week and a minute before the post to two weeks and a
\* minute after it.
CommentTimeOffsets == (0 - 7 * 24 * 60 - 1)..(2 * 7 * 24 * 60 + 1)

\* The calls made: every function on every sample, with every draw.
isDateCall(call) ==
  \/ \E t \in DateSamples : call = [fn |-> "adjustToBusinessHours", args |-> <<t>>]
  \/ \E t \in PostTimeSamples, d \in CommentTimeOffsets :
       call = [fn |-> "isValidCommentTime", args |-> <<t, t + d>>]
  \/ \E ws \in WeekStartSamples, totalPosts \in 1..MaxPostsPerWeek :
       \E postIndex \in 0..(totalPosts - 1), rnd \in AllPostTimeDraws :
         call = [fn |-> "generatePostTime", args |-> <<ws, postIndex, totalPosts, rnd>>]
  \/ \E t \in PostTimeSamples, r \in AllFirstDelayDraws :
       call = [fn |-> "generateFirstCommentTime", args |-> <<t, r>>]
  \/ \E t \in PostTimeSamples, rh \in AllLateHourDraws, rm \in AllLateMinuteDraws :
       call = [fn |-> "generateLateCommentTime", args |-> <<t, rh, rm>>]

InitDate ==
  /\ pc = "idle"
  /\ input = NoInput
  /\ subredditStrategy = <<>>
  /\ keywordStrategy = [tracker |-> <<>>, combos |-> {}]
  /\ personaMatcher = <<>>
  /\ postPlans = <<>>
  /\ posts = <<>>
  /\ allComments = <<>>
  /\ commentIdCounter = 1
  /\ i = 0
  /\ commentPlans = <<>>
  /\ j = 0
  /\ requests = <<>>
  /\ error = "none"
  /\ validation = NoValidation
  /\ calendar = NoCalendar
  /\ runs = 0
  /\ isDateCall(dateCall)
  /\ dateResult = <<>>
  /\ validatorCall = NoCall
  /\ validatorResult = <<>>
  /\ matcherCall = NoCall
  /\ matcherResult = <<>>

\* The call returns value; nothing of a generator is touched.
dateReturns(value) ==
  /\ dateResult' = Append(dateResult, value)
  /\ UNCHANGED <<dateCall, validatorCall, validatorResult, matcherCall, matcherResult, runs, pc, input, subredditStrategy, keywordStrategy, personaMatcher,
                 postPlans, posts, allComments, commentIdCounter, i, commentPlans, j,
                 requests, error, validation, calendar>>

\* adjustToBusinessHours on the argument, then once more on what it returned.
callAdjustToBusinessHours ==
  /\ dateCall.fn = "adjustToBusinessHours"
  /\ Len(dateResult) < 2
  /\ dateReturns(adjustToBusinessHours(IF dateResult = <<>> THEN dateCall.args[1]
                                        ELSE dateResult[Len(dateResult)]))

callIsValidCommentTime ==
  /\ dateCall.fn = "isValidCommentTime"
  /\ dateResult = <<>>
  /\ dateReturns(isValidCommentTime(dateCall.args[1], dateCall.args[2]))

callGeneratePostTime ==
  /\ dateCall.fn = "generatePostTime"
  /\ dateResult = <<>>
  /\ dateReturns(generatePostTime(dateCall.args[1], dateCall.args[2], dateCall.args[3],
                                   dateCall.args[4]))

callGenerateFirstCommentTime ==
  /\ dateCall.fn = "generateFirstCommentTime"
  /\ dateResult = <<>>
  /\ dateReturns(generateFirstCommentTime(dateCall.args[1], dateCall.args[2]))

callGenerateLateCommentTime ==
  /\ dateCall.fn = "generateLateCommentTime"
  /\ dateResult = <<>>
  /\ dateReturns(generateLateCommentTime(dateCall.args[1], dateCall.args[2], dateCall.args[3]))

NextDate ==
  \/ callAdjustToBusinessHours
  \/ callIsValidCommentTime
  \/ callGeneratePostTime
  \/ callGenerateFirstCommentTime
  \/ callGenerateLateCommentTime

SpecDate == InitDate /\ [][NextDate]_vars

\* ------------------------------------------------------------------------
\* The validators called on their own (lib/algorithm/validators.ts)
\* validatorCall is the call; validatorResult lists the values returned.
\* ------------------------------------------------------------------------
\* Words longer than 3 characters that two titles may share, words that only
\* the first or only the second title has, and words of 2 and 3 characters.
CommonWords ==
  <<word("presentation", 12, FALSE), word("slides", 6, FALSE), word("deck", 4, FALSE),
    word("tools", 5, FALSE), word("automation", 10, FALSE), word("design", 6, FALSE),
    word("pitch", 5, FALSE)>>
OwnWords1 == <<word("best", 4, FALSE), word("maker", 5, FALSE), word("software", 8, FALSE)>>
OwnWords2 == <<word("review", 6, FALSE), word("guide", 5, FALSE), word("tips", 4, FALSE)>>
ShortWords == <<word("ai", 2, FALSE), word("the", 3, FALSE)>>

toUpperCase(title) == [k \in 1..Len(title) |-> [title[k] EXCEPT !.upper = TRUE]]

\* A post of the given id and title, Monday 09:00, by persona 1.
postTitled(id, title) ==
  [post_id |-> id, subreddit |-> 1, title |-> title, author_username |-> 1,
   timestamp |-> 9 * 60, keyword_ids |-> <<1>>]

\* Two or three posts: the first two share c words, have a and b words of
\* their own, and the short words when short holds; the first is written in
\* upper case when upper holds; the third has the shared words only.
titledPosts(c, a, b, short, upper, n) ==
  LET shorts == IF short THEN ShortWords ELSE <<>>
      t1 == shorts \o SubSeq(CommonWords, 1, c) \o SubSeq(OwnWords1, 1, a)
      t2 == SubSeq(OwnWords2, 1, b) \o SubSeq(CommonWords, 1, c) \o shorts
      t3 == SubSeq(CommonWords, 1, c)
      three == <<postTitled(1, IF upper THEN toUpperCase(t1) ELSE t1),
                 postTitled(2, t2), postTitled(3, t3)>>
  IN  SubSeq(three, 1, n)

MaxContentPersonas == 3
MaxContentEach == 2

\* The posts and the comments in which persona order[k] has postCounts[k]
\* posts and commentCounts[k] comments, listed persona after persona.
postsBy(order, postCounts) ==
  LET authors == flatten([k \in 1..Len(order) |-> [m \in 1..postCounts[k] |-> order[k]]])
  IN  [x \in 1..Len(authors) |->
         [post_id |-> x, subreddit |-> 1, title |-> <<>>, author_username |-> authors[x],
          timestamp |-> 9 * 60 + x * 24 * 60, keyword_ids |-> <<1>>]]

commentsBy(order, commentCounts) ==
  LET authors == flatten([k \in 1..Len(order) |-> [m \in 1..commentCounts[k] |-> order[k]]])
  IN  [x \in 1..Len(authors) |->
         [comment_id |-> x, post_id |-> 1, parent_comment_id |-> 0,
          username |-> authors[x], timestamp |-> 10 * 60 + x]]

PersonaOrders == {[k \in 1..MaxContentPersonas |-> k],
                  [k \in 1..MaxContentPersonas |-> MaxContentPersonas + 1 - k]}

\* Times of posts handed to the auto-fix: 03:00, 06:00, 12:00, 22:59, 23:30.
FixPostTimes == {3 * 60, 6 * 60, 12 * 60, 22 * 60 + 59, 23 * 60 + 30}

\* Times of comments: 02:00, 08:59, 09:10, 12:10, 23:45, and 09:00 and 09:20
\* of the next day.
FixCommentTimes ==
  {2 * 60, 8 * 60 + 59, 9 * 60 + 10, 12 * 60 + 10, 23 * 60 + 45,
   24 * 60 + 9 * 60, 24 * 60 + 9 * 60 + 20}

MaxFixPosts == 2

\* A post of the given id and time, the posts having different titles.
postAt(id, t) ==
  [postTitled(id, IF id = 1 THEN OwnWords1 ELSE OwnWords2) EXCEPT !.timestamp = t]

\* Two comments, by personas 2 and 3, on the posts on[1] and on[2] (an id
\* above MaxFixPosts is the id of no post) at the times at[1] and at[2];
\* parents[k] is the parent_comment_id of comment k.
FixParents == {<<0, 0>>, <<0, 1>>, <<2, 0>>}

commentsAt(on, at, parents) ==
  [k \in 1..2 |->
     [comment_id |-> k, post_id |-> on[k], parent_comment_id |-> parents[k],
      username |-> k + 1, timestamp |-> at[k]]]

isValidatorCall(call) ==
  \/ \E c \in 0..Len(CommonWords), a \in 0..Len(OwnWords1), b \in 0..Len(OwnWords2) :
       \E short \in BOOLEAN, upper \in BOOLEAN, n \in 2..3 :
         call = [fn |-> "validateTopicDiversity",
                 args |-> <<titledPosts(c, a, b, short, upper, n)>>]
  \/ \E order \in PersonaOrders :
       \E postCounts \in [1..MaxContentPersonas -> 0..MaxContentEach],
          commentCounts \in [1..MaxContentPersonas -> 0..MaxContentEach] :
         call = [fn |-> "validatePersonaDistribution",
                 args |-> <<postsBy(order, postCounts), commentsBy(order, commentCounts)>>]
  \/ \E n \in 1..MaxFixPosts :
       \E times \in [1..n -> FixPostTimes], on \in [1..2 -> 1..(MaxFixPosts + 1)],
          at \in [1..2 -> FixCommentTimes], parents \in FixParents :
         call = [fn |-> "fixTimestampIssues",
                 args |-> <<[k \in 1..n |-> postAt(k, times[k])], commentsAt(on, at, parents)>>]

InitValidators ==
  /\ pc = "idle"
  /\ input = NoInput
  /\ subredditStrategy = <<>>
  /\ keywordStrategy = [tracker |-> <<>>, combos |-> {}]
  /\ personaMatcher = <<>>
  /\ postPlans = <<>>
  /\ posts = <<>>
  /\ allComments = <<>>
  /\ commentIdCounter = 1
  /\ i = 0
  /\ commentPlans = <<>>
  /\ j = 0
  /\ requests = <<>>
  /\ error = "none"
  /\ validation = NoValidation
  /\ calendar = NoCalendar
  /\ runs = 0
  /\ dateCall = NoCall
  /\ dateResult = <<>>
  /\ isValidatorCall(validatorCall)
  /\ validatorResult = <<>>
  /\ matcherCall = NoCall
  /\ matcherResult = <<>>

\* The call returns value; nothing of a generator is touched.
validatorReturns(value) ==
  /\ validatorResult' = Append(validatorResult, value)
  /\ UNCHANGED <<validatorCall, dateCall, dateResult, matcherCall, matcherResult, runs, pc, input, subredditStrategy,
                 keywordStrategy, personaMatcher, postPlans, posts, allComments,
                 commentIdCounter, i, commentPlans, j, requests, error, validation, calendar>>

callValidateTopicDiversity ==
  /\ validatorCall.fn = "validateTopicDiversity"
  /\ validatorResult = <<>>
  /\ validatorReturns(validateTopicDiversity(validatorCall.args[1]))

callValidatePersonaDistribution ==
  /\ validatorCall.fn = "validatePersonaDistribution"
  /\ validatorResult = <<>>
  /\ validatorReturns(validatePersonaDistribution(validatorCall.args[1], validatorCall.args[2]))

\* generate, phase 4: the auto-fix and the validation that follows it.
callFixTimestampIssues ==
  /\ validatorCall.fn = "fixTimestampIssues"
  /\ validatorResult = <<>>
  /\ \E fixed \in {fixTimestampIssues(validatorCall.args[1], validatorCall.args[2])} :
       validatorReturns([fixed |-> fixed,
                         validation |-> validateContentCalendar(fixed.posts, fixed.comments)])

NextValidators ==
  \/ callValidateTopicDiversity
  \/ callValidatePersonaDistribution
  \/ callFixTimestampIssues

SpecValidators == InitValidators /\ [][NextValidators]_vars

\* ------------------------------------------------------------------------
\* PersonaMatcher.selectCommentAuthors called on its own, on a tracker that
\* selectPostAuthor has filled for the personas of the call.
\* ------------------------------------------------------------------------
MaxMatcherPersonas == 6

\* Trackers of n personas: each has commented 0 or 1 times (personas with a
\* comment have been used at post index 0), the author has its post.
matcherTrackers(n, postAuthor) ==
  {[u \in 1..n |->
      [postCount |-> IF u = postAuthor THEN 1 ELSE 0,
       commentCount |-> cc[u],
       lastUsedIndex |-> IF u = postAuthor THEN 1
                         ELSE IF cc[u] > 0 THEN 0 ELSE -1]] :
     cc \in [1..n -> 0..1]}

isMatcherCall(call) ==
  \E n \in 1..MaxMatcherPersonas :
    \E postAuthor \in 1..n, rCount \in CommentCountDraws, opJoins \in OpJoinsDraws :
      \E tracker \in matcherTrackers(n, postAuthor) :
        call = [fn |-> "selectCommentAuthors",
                args |-> <<tracker, [k \in 1..n |-> k], postAuthor, 1, rCount, opJoins>>]

InitMatcher ==
  /\ pc = "idle"
  /\ input = NoInput
  /\ subredditStrategy = <<>>
  /\ keywordStrategy = [tracker |-> <<>>, combos |-> {}]
  /\ personaMatcher = <<>>
  /\ postPlans = <<>>
  /\ posts = <<>>
  /\ allComments = <<>>
  /\ commentIdCounter = 1
  /\ i = 0
  /\ commentPlans = <<>>
  /\ j = 0
  /\ requests = <<>>
  /\ error = "none"
  /\ validation = NoValidation
  /\ calendar = NoCalendar
  /\ runs = 0
  /\ dateCall = NoCall
  /\ dateResult = <<>>
  /\ validatorCall = NoCall
  /\ validatorResult = <<>>
  /\ isMatcherCall(matcherCall)
  /\ matcherResult = <<>>

callSelectCommentAuthors ==
  /\ matcherCall.fn = "selectCommentAuthors"
  /\ matcherResult = <<>>
  /\ matcherResult' = <<selectCommentAuthors(matcherCall.args[1], matcherCall.args[2],
                                              matcherCall.args[3], matcherCall.args[4],
                                              matcherCall.args[5], matcherCall.args[6])>>
  /\ UNCHANGED <<matcherCall, dateCall, dateResult, validatorCall, validatorResult, runs, pc,
                 input, subredditStrategy, keywordStrategy, personaMatcher, postPlans, posts,
                 allComments, commentIdCounter, i, commentPlans, j, requests, error,
                 validation, calendar>>

NextMatcher ==
  \/ callSelectCommentAuthors

SpecMatcher == InitMatcher /\ [][NextMatcher]_vars

\* ------------------------------------------------------------------------
\* Properties
\* ------------------------------------------------------------------------
Distinct(s) == \A a, b \in 1..Len(s) : a # b => s[a] # s[b]

\* The first comment created for the post `id`.
firstCommentOf(comments, id) ==
  comments[CHOOSE k \in 1..Len(comments) :
             /\ comments[k].post_id = id
             /\ \A m \in 1..(k - 1) : comments[m].post_id # id]

\* C1: when the subreddit list has no duplicates and at least postsPerWeek
\* entries, the planned and the generated posts use each subreddit at most
\* once; a subreddit is selected a second time only when every subreddit of
\* the list already has a post.
SubredditsUsedOnce ==
  /\ (Distinct(input.subreddits) /\ Len(input.subreddits) >= input.postsPerWeek)
       => /\ Distinct([k \in 1..Len(postPlans) |-> postPlans[k].subreddit])
          /\ Distinct([k \in 1..Len(posts) |-> posts[k].subreddit])
  /\ \A b \in 1..Len(postPlans) :
       (\E a \in 1..(b - 1) : postPlans[a].subreddit = postPlans[b].subreddit)
         => \A sub \in Range(input.subreddits) :
              \E a \in 1..(b - 1) : postPlans[a].subreddit = sub

SubredditsUsedOnceWitness ==
  /\ pc = "returned"
  /\ Distinct(input.subreddits)
  /\ Len(input.subreddits) >= input.postsPerWeek
  /\ Len(calendar.posts) >= 2

\* C2: every reply has as its parent the first comment created for its own
\* post (the parent's post_id is the reply's post_id).
RepliesAnswerOwnPost ==
  \A c \in Range(allComments) :
    c.parent_comment_id # 0
      => /\ c.parent_comment_id = firstCommentOf(allComments, c.post_id).comment_id
         /\ \A d \in Range(allComments) :
              d.comment_id = c.parent_comment_id => d.post_id = c.post_id

\* C3: in a returned calendar every comment's post_id is the id of a post of
\* the calendar, and every non-null parent_comment_id is the id of another
\* comment of the calendar.
CalendarReferencesResolve ==
  pc = "returned"
    => \A c \in Range(calendar.comments) :
         /\ \E p \in Range(calendar.posts) : p.post_id = c.post_id
         /\ c.parent_comment_id # 0
              => /\ c.parent_comment_id # c.comment_id
                 /\ \E d \in Range(calendar.comments) :
                      d.comment_id = c.parent_comment_id

CalendarReferencesResolveWitness ==
  /\ pc = "returned"
  /\ Len(calendar.posts) >= 2
  /\ \E c \in Range(calendar.comments) : c.parent_comment_id # 0 /\ c.post_id = 2

\* C4: in a returned calendar every comment is strictly later than its post
\* and less than 7 days later, and every reply is strictly later than its
\* parent comment.
CalendarTimestampsOrdered ==
  pc = "returned"
    => \A c \in Range(calendar.comments) :
         /\ \A p \in Range(calendar.posts) :
              p.post_id = c.post_id
                => /\ c.timestamp > p.timestamp
                   /\ c.timestamp - p.timestamp < 7 * 24 * 60
         /\ \A d \in Range(calendar.comments) :
              (c.parent_comment_id # 0 /\ d.comment_id = c.parent_comment_id)
                => c.timestamp > d.timestamp

CalendarTimestampsOrderedWitness ==
  /\ pc = "returned"
  /\ \E c \in Range(calendar.comments) : c.parent_comment_id # 0 /\ c.post_id = 1
  /\ \E c \in Range(calendar.comments) : c.parent_comment_id # 0 /\ c.post_id = 2

\* C5 as stated: every post has 2 or 3 keyword_ids, all of the supplied
\* keywords and pairwise distinct.
TwoOrThreeKeywordsPerPost ==
  \A p \in Range(posts) :
    /\ Len(p.keyword_ids) \in {2, 3}
    /\ Range(p.keyword_ids) \subseteq Range(input.keywords)
    /\ Distinct(p.keyword_ids)

\* C5 as amended: every post has min(2, n) or min(3, n) keyword_ids, n being
\* the number of supplied keywords, all of the supplied keywords and pairwise
\* distinct.
KeywordsPerPostWithinSupply ==
  \A p \in Range(posts) :
    /\ Len(p.keyword_ids) \in {Min(2, Len(input.keywords)), Min(3, Len(input.keywords))}
    /\ Range(p.keyword_ids) \subseteq Range(input.keywords)
    /\ Distinct(p.keyword_ids)

KeywordsPerPostWithinSupplyWitness ==
  /\ Len(posts) >= 2
  /\ Len(input.keywords) >= 3
  /\ Len(posts[1].keyword_ids) = 3
  /\ Len(posts[2].keyword_ids) = 2

\* Number of posts and comments of `u` among ps and cs.
contentOf(ps, cs, u) ==
  Cardinality({k \in 1..Len(ps) : ps[k].author_username = u})
    + Cardinality({k \in 1..Len(cs) : cs[k].username = u})

dominated(ps, cs) ==
  \E u \in Range(input.personas) : 2 * contentOf(ps, cs, u) > Len(ps) + Len(cs)

\* C6: no returned calendar has a persona with more than half of the posts
\* plus comments; when the generated content is that imbalanced, generate
\* fails with the dominance error.
NoDominantPersonaReturned ==
  /\ pc = "returned" => ~dominated(calendar.posts, calendar.comments)
  /\ (Finished /\ error # "generation" /\ dominated(posts, allComments))
       => /\ pc = "failed"
          /\ \E k \in 1..Len(validation.errors) : validation.errors[k][1] = "dominates"

NoDominantPersonaReturnedWitness ==
  /\ pc = "failed"
  /\ error = "validation"
  /\ dominated(posts, allComments)
  /\ Len(validation.errors) = 1

\* C7: when a call to the text generator fails, generate fails with that
\* error and returns no calendar, the failed call is the last call made and
\* was made once, and no call follows it.
failedCalls == {k \in 1..Len(requests) : ~requests[k].ok}

GenerationFailureAborts ==
  /\ [](failedCalls # {}
          => /\ pc = "failed"
             /\ error = "generation"
             /\ calendar = NoCalendar
             /\ failedCalls = {Len(requests)}
             /\ \A k \in 1..(Len(requests) - 1) :
                  <<requests[k].kind, requests[k].post, requests[k].index>>
                    # <<requests[Len(requests)].kind, requests[Len(requests)].post,
                        requests[Len(requests)].index>>)
  /\ [][failedCalls # {} => UNCHANGED <<requests, pc, error, calendar>>]_vars

GenerationFailureAbortsWitness ==
  /\ pc = "failed"
  /\ error = "generation"
  /\ Len(posts) >= 2
  /\ Len(allComments) >= 2

\* C8: once every call has succeeded, generate returns a calendar exactly
\* when none of the five checks, run on the auto-fixed content, reports an
\* error; the aggregate is valid exactly when all five are, which is exactly
\* when the concatenated error list is empty.
fiveChecks ==
  <<validateNoOverposting(posts),
    validateTopicDiversity(posts),
    validateTimestamps(posts, allComments),
    validatePersonaDistribution(posts, allComments),
    validateCommentThreads(allComments)>>

ReturnsIffNoBlockingError ==
  (Finished /\ error # "generation")
    => let(fiveChecks,
           LAMBDA checks :
             /\ (pc = "returned") <=> (\A k \in 1..5 : checks[k].errors = <<>>)
             /\ validation.isValid <=> (\A k \in 1..5 : checks[k].isValid)
             /\ validation.isValid <=> (validation.errors = <<>>)
             /\ validation.errors = checks[1].errors \o checks[2].errors
                                      \o checks[3].errors \o checks[4].errors
                                      \o checks[5].errors
             /\ (pc = "returned")
                  => calendar = [posts |-> posts, comments |-> allComments])

ReturnsIffNoBlockingErrorWitness ==
  /\ pc = "returned"
  /\ Len(validation.warnings) >= 2

\* C9: when postsPerWeek exceeds the number of supplied subreddits generate
\* never returns a calendar: once every call has succeeded, some subreddit
\* has two posts and the no-overposting check reports it (it reports an
\* error exactly when some subreddit has more than one post).
TooFewSubredditsNeverReturns ==
  /\ input.postsPerWeek > Len(input.subreddits)
       => /\ pc # "returned"
          /\ (pc = "failed" /\ error = "validation")
               => \E k \in 1..Len(validation.errors) :
                    validation.errors[k][1] = "overposting"
  /\ (validateNoOverposting(posts).errors # <<>>)
       <=> ~Distinct([k \in 1..Len(posts) |-> posts[k].subreddit])

TooFewSubredditsNeverReturnsWitness ==
  /\ pc = "failed"
  /\ error = "validation"
  /\ input.postsPerWeek > Len(input.subreddits)
  /\ Len(validation.errors) = 1

\* C10: with at least 3 personas and a duplicate-free subreddit list of at
\* least postsPerWeek entries, a run whose calls all succeed and whose titles
\* are pairwise at most 70% similar ends by returning a calendar of
\* postsPerWeek posts, whatever the random draws: the run is never stuck
\* before it ends, every step takes it closer to its end, and it fails only
\* on a failed call or on similar titles.
inputOK ==
  /\ Len(input.personas) >= 3
  /\ Distinct(input.personas)
  /\ Distinct(input.subreddits)
  /\ Len(input.subreddits) >= input.postsPerWeek

titlesClash ==
  \E a, b \in 1..Len(posts) :
    /\ a < b
    /\ above70(calculateTextSimilarity(toLowerCase(posts[a].title),
                                       toLowerCase(posts[b].title)))

\* Steps taken by the run; no run takes more than stepLimit steps (per post:
\* its plan, its request, the head of its thread and at most 4 comments).
stepsTaken ==
  (IF pc = "idle" THEN 0 ELSE 1) + Len(postPlans) + Len(requests) + i
    + (IF pc = "comments" THEN 1 ELSE 0) + (IF Finished THEN 1 ELSE 0)

stepLimit == 2 + 7 * MaxPosts

PlannerAlwaysValid ==
  /\ []((inputOK /\ pc = "failed") => (error = "generation" \/ titlesClash))
  /\ [](pc = "returned" => Len(calendar.posts) = input.postsPerWeek)
  /\ [](~Finished => ENABLED Next)
  /\ [](stepsTaken <= stepLimit)
  /\ [][stepsTaken' > stepsTaken]_vars

PlannerAlwaysValidWitness ==
  /\ pc = "returned"
  /\ inputOK
  /\ Len(calendar.posts) >= 2
  /\ \E c \in Range(calendar.comments) : c.parent_comment_id # 0

\* Number of comments made on the post `id`.
commentsOf(id) == Cardinality({k \in 1..Len(allComments) : allComments[k].post_id = id})

\* C11 as stated: every post whose thread is complete has at least 2 and at
\* most 4 comments.
TwoToFourCommentsPerPost ==
  \A k \in 1..i : commentsOf(posts[k].post_id) \in 2..4

\* C11 as amended: with n personas, every post whose thread is complete has
\* at least min(2, n - 1) and at most min(4, n) comments.
CommentsPerPostWithinPersonas ==
  \A k \in 1..i :
    /\ commentsOf(posts[k].post_id) >= Min(2, Len(input.personas) - 1)
    /\ commentsOf(posts[k].post_id) <= Min(4, Len(input.personas))

CommentsPerPostWithinPersonasWitness ==
  /\ pc = "returned"
  /\ Len(input.personas) = 4
  /\ commentsOf(1) = 4

\* C12: the calls to the text generator are made one at a time (a step of
\* the run is one call awaited to its end, so the log grows by at most one
\* call per step and only the last call can have failed), in this order: the
\* post requests in post-index order, then, post by post, the comment
\* requests of the post in plan order; no comment request is made before
\* every post request has completed.
isNextRequest(a, b) ==
  \/ a.kind = "post" /\ b.kind = "post" /\ b.post = a.post + 1
  \/ a.kind = "post" /\ b.kind = "comment" /\ a.post = input.postsPerWeek
       /\ b.post = 1 /\ b.index = 0
  \/ a.kind = "comment" /\ b.kind = "comment" /\ b.post = a.post /\ b.index = a.index + 1
  \/ a.kind = "comment" /\ b.kind = "comment" /\ b.post = a.post + 1 /\ b.index = 0

CallsOneAtATimeInOrder ==
  /\ [](/\ Len(requests) > 0 => requests[1].kind = "post" /\ requests[1].post = 1
        /\ \A k \in 1..(Len(requests) - 1) :
             requests[k].ok /\ isNextRequest(requests[k], requests[k + 1])
        /\ \A k \in 1..Len(requests) :
             requests[k].kind = "comment"
               => /\ k > input.postsPerWeek
                  /\ \A m \in 1..input.postsPerWeek :
                       requests[m].kind = "post" /\ requests[m].post = m /\ requests[m].ok)
  /\ [][\/ requests' = requests
         \/ \E r \in {requests'[Len(requests')]} : requests' = Append(requests, r)]_vars

CallsOneAtATimeInOrderWitness ==
  /\ pc = "returned"
  /\ Len(posts) = 2
  /\ commentsOf(1) >= 2
  /\ commentsOf(2) >= 2
  /\ Len(requests) = Len(posts) + Len(allComments)

\* C13 as stated: once a call to the text generator has been made, no
\* rotator changes any more.
RotatorsOnlyUsedInPlanning ==
  [][requests # <<>> => UNCHANGED <<subredditStrategy, keywordStrategy, personaMatcher>>]_vars

\* C13 as amended: the subreddit and the keyword rotator change only before
\* the first call to the text generator; the persona rotator changes before
\* the first call and at the head of each post's thread, which comes after
\* every post request and, from the second post on, after the comment
\* requests of the posts before; no rotator changes while the comments of a
\* thread are requested or after the last thread.
RotatorsUsedInPlanningAndThreadHeads ==
  /\ [][(subredditStrategy' # subredditStrategy \/ keywordStrategy' # keywordStrategy)
         => requests = <<>> /\ requests' = <<>>]_vars
  /\ [][personaMatcher' # personaMatcher
         => \/ requests = <<>> /\ requests' = <<>>
            \/ /\ pc = "thread" /\ pc' = "comments"
               /\ requests' = requests
               /\ Len(requests) = input.postsPerWeek + Len(allComments)
               /\ \A k \in 1..Len(allComments) : allComments[k].post_id <= i]_vars
  /\ [][(pc = "thread" /\ pc' = "comments") => personaMatcher' # personaMatcher]_vars

RotatorsUsedInPlanningAndThreadHeadsWitness ==
  /\ pc = "comments"
  /\ i = 1
  /\ j = 0
  /\ Len(allComments) >= 2
  /\ \E u \in DOMAIN personaMatcher : personaMatcher[u].lastUsedIndex = 1
                                          /\ personaMatcher[u].commentCount >= 2

\* The comment plans a call running alone can make for its first post.
alonePlansOfFirstThread ==
  LET alone == planRotators([sub |-> <<>>, kw |-> [tracker |-> <<>>, combos |-> {}],
                             pm |-> <<>>],
                            input, 0, [k \in 1..input.postsPerWeek |-> 2])
      author == postPlans[1].author
  IN  {createCommentPlans(
         selectCommentAuthors(alone.pm, input.personas, author, 0, rCount, opJoins).selected,
         2 + rTarget, author, rnd) :
         rTarget \in CommentCountDraws, rCount \in CommentCountDraws,
         opJoins \in OpJoinsDraws, rnd \in PlanDraws}

\* C14: a generate call that overlaps another call on the same generator
\* plans as if it ran alone: the comment plans of its first post are plans
\* it can make when it runs alone.
OverlappingCallPlansAsIfAlone ==
  (pc = "comments" /\ i = 0) => commentPlans \in alonePlansOfFirstThread

\* C15: rotator state does not survive a run: a generate call made after an
\* earlier call has returned or failed starts from empty usage trackers and
\* an empty set of combinations, in the state in which the first call on a
\* new generator starts, so it has the same possible plans.
startedOnNewGenerator ==
  /\ subredditStrategy = <<>>
  /\ keywordStrategy = [tracker |-> <<>>, combos |-> {}]
  /\ personaMatcher = <<>>
  /\ postPlans = <<>> /\ posts = <<>> /\ allComments = <<>> /\ commentPlans = <<>>
  /\ commentIdCounter = 1 /\ i = 0 /\ j = 0
  /\ requests = <<>> /\ error = "none"

NoMemoryAcrossRuns ==
  /\ []((pc = "plan" /\ postPlans = <<>>) => startedOnNewGenerator)
  /\ [][(Finished /\ pc' = "plan")
         => /\ subredditStrategy' = <<>>
            /\ keywordStrategy' = [tracker |-> <<>>, combos |-> {}]
            /\ personaMatcher' = <<>>
            /\ input' \in Inputs]_vars

NoMemoryAcrossRunsWitness ==
  /\ runs = 2
  /\ pc = "returned"
  /\ Len(calendar.posts) = 2

\* C16: the comment ids are 1, 2, ..., m in creation order, given by one
\* counter that is shared by all posts and never goes back; the post ids are
\* 1, ..., n with n = postsPerWeek once every post exists, the post of index
\* k having the id k + 1.
IdsAreSequential ==
  /\ [](/\ \A k \in 1..Len(allComments) : allComments[k].comment_id = k
        /\ commentIdCounter = Len(allComments) + 1
        /\ \A k \in 1..Len(posts) :
             posts[k].post_id = k /\ posts[k].post_id = postPlans[k].postIndex + 1
        /\ pc \in {"thread", "comments", "validate", "returned"}
             => Len(posts) = input.postsPerWeek
        /\ pc = "returned"
             => /\ \A k \in 1..Len(calendar.posts) : calendar.posts[k].post_id = k
                /\ \A k \in 1..Len(calendar.comments) : calendar.comments[k].comment_id = k)
  /\ [][commentIdCounter' >= commentIdCounter]_vars

IdsAreSequentialWitness ==
  /\ pc = "returned"
  /\ Len(calendar.posts) = 2
  /\ Len(calendar.comments) >= 4
  /\ \E k \in 1..Len(calendar.comments) :
       calendar.comments[k].post_id = 2 /\ calendar.comments[k].comment_id = 5

\* C17: adjustToBusinessHours applied to its own result returns that result;
\* an hour below 6 gives 09:00 of the same day, an hour of 23 gives 09:00 of
\* the next day, any other time is returned as it is, and the hour of the
\* result is at least 6 and below 23.
AdjustToBusinessHoursIdempotent ==
  (dateCall.fn = "adjustToBusinessHours" /\ dateResult # <<>>) =>
    LET date == dateCall.args[1]
        day == date \div (24 * 60)
        hour == (date \div 60) % 24
        once == dateResult[1]
    IN  /\ hour < 6 => once = day * 24 * 60 + 9 * 60
        /\ hour >= 23 => once = (day + 1) * 24 * 60 + 9 * 60
        /\ (hour >= 6 /\ hour < 23) => once = date
        /\ (once \div 60) % 24 >= 6
        /\ (once \div 60) % 24 < 23
        /\ Len(dateResult) = 2 => dateResult[2] = once

AdjustToBusinessHoursIdempotentWitness ==
  /\ dateCall.fn = "adjustToBusinessHours"
  /\ dateCall.args[1] = 23 * 60 + 30
  /\ dateResult = <<24 * 60 + 9 * 60, 24 * 60 + 9 * 60>>

\* C18: isValidCommentTime(postTime, commentTime) is true exactly when the
\* difference d in minutes is above 0 and below 7 * 24 * 60: it is false for
\* equal times, for a comment before the post and for a comment 7 days or
\* more after the post.
ValidCommentTimeIffWithinWeek ==
  (dateCall.fn = "isValidCommentTime" /\ dateResult # <<>>) =>
    LET d == dateCall.args[2] - dateCall.args[1]
    IN  /\ dateResult[1] = (0 < d /\ d < 7 * 24 * 60)
        /\ d = 0 => dateResult[1] = FALSE
        /\ d < 0 => dateResult[1] = FALSE
        /\ d >= 7 * 24 * 60 => dateResult[1] = FALSE

ValidCommentTimeIffWithinWeekWitness ==
  /\ dateCall.fn = "isValidCommentTime"
  /\ dateCall.args[2] - dateCall.args[1] = 7 * 24 * 60 - 1
  /\ dateResult = <<TRUE>>

\* C19: for every postIndex < totalPosts <= 7 and every outcome of the draws,
\* the weekend relocation included, the hour of the time generatePostTime
\* returns is at least 9 and below 21, and the time is not before the Monday
\* 00:00 of the week of weekStart.
PostTimeInPeakHoursOfWeek ==
  (dateCall.fn = "generatePostTime" /\ dateResult # <<>>) =>
    LET weekStart == dateCall.args[1]
        monday == (weekStart \div (7 * 24 * 60)) * 7 * 24 * 60
        hour == (dateResult[1] \div 60) % 24
    IN  /\ dateCall.args[2] < dateCall.args[3]
        /\ dateCall.args[3] <= MaxPostsPerWeek
        /\ hour >= 9
        /\ hour < 21
        /\ dateResult[1] >= monday

\* The Sunday post of a week of 7 is moved to the Monday after the week.
PostTimeInPeakHoursOfWeekWitness ==
  /\ dateCall.fn = "generatePostTime"
  /\ dateCall.args[1] = 0
  /\ dateCall.args[2] = 6
  /\ dateCall.args[3] = 7
  /\ dateCall.args[4].relocate
  /\ dateResult = <<7 * 24 * 60 + 17 * 60 + 59>>

\* C20: the time generateFirstCommentTime returns, the timestamp of a comment
\* of position first, is at least 15 and at most 60 minutes after the time of
\* the post.
FirstCommentWithinTheHour ==
  (dateCall.fn = "generateFirstCommentTime" /\ dateResult # <<>>) =>
    /\ dateResult[1] - dateCall.args[1] >= 15
    /\ dateResult[1] - dateCall.args[1] <= 60

FirstCommentWithinTheHourWitness ==
  /\ dateCall.fn = "generateFirstCommentTime"
  /\ dateCall.args[2] = 0
  /\ dateResult = <<dateCall.args[1] + 15>>

\* C21: in a returned calendar every reply has the timestamp of its parent
\* comment plus at least 5 and at most 30 minutes, under every post.
RepliesFollowParentWithinHalfHour ==
  pc = "returned"
    => \A c \in Range(calendar.comments) :
         \A d \in Range(calendar.comments) :
           (c.parent_comment_id # 0 /\ d.comment_id = c.parent_comment_id)
             => /\ c.timestamp - d.timestamp >= 5
                /\ c.timestamp - d.timestamp <= 30

\* The whole hours h that generateLateCommentTime can add to postTime: some
\* draws give postTime plus h hours plus the drawn minutes.
lateHoursPossible(postTime) ==
  {h \in 0..24 :
     \E rh \in AllLateHourDraws, rm \in AllLateMinuteDraws :
       generateLateCommentTime(postTime, rh, rm) = postTime + h * 60 + rm}

\* C22 as stated: generateLateCommentTime returns postTime plus h hours plus m
\* minutes with h in 1..6 and m in 0..59, and every h from 1 to 6 is the
\* outcome of some draw.
LateCommentOneToSixHours ==
  (dateCall.fn = "generateLateCommentTime" /\ dateResult # <<>>) =>
    LET delay == dateResult[1] - dateCall.args[1]
    IN  /\ delay \div 60 \in 1..6
        /\ delay % 60 \in 0..59
        /\ delay >= 0
        /\ \A h \in 1..6 : h \in lateHoursPossible(dateCall.args[1])

\* C22 as amended: generateLateCommentTime returns postTime plus h hours plus m
\* minutes with h in 1..5 and m in 0..59 (the drawn minutes), every h from 1
\* to 5 is the outcome of some draw, and no other h is.
LateCommentOneToFiveHours ==
  (dateCall.fn = "generateLateCommentTime" /\ dateResult # <<>>) =>
    LET delay == dateResult[1] - dateCall.args[1]
    IN  /\ delay \div 60 \in 1..5
        /\ delay % 60 = dateCall.args[3]
        /\ delay >= 0
        /\ lateHoursPossible(dateCall.args[1]) = 1..5

LateCommentOneToFiveHoursWitness ==
  /\ dateCall.fn = "generateLateCommentTime"
  /\ dateCall.args[2] = 4
  /\ dateResult = <<dateCall.args[1] + 5 * 60 + 59>>

\* The Jaccard similarity <<numerator, denominator>> of the sets of words
\* longer than 3 characters of two titles, upper and lower case being alike.
jaccard(title1, title2) ==
  LET set1 == {w.stem : w \in {x \in Range(title1) : x.len > 3}}
      set2 == {w.stem : w \in {x \in Range(title2) : x.len > 3}}
  IN  IF set1 = {} /\ set2 = {} THEN <<1, 1>>
      ELSE IF set1 = {} \/ set2 = {} THEN <<0, 1>>
      ELSE <<Cardinality(set1 \cap set2), Cardinality(set1 \cup set2)>>

\* The entries of kind that a result list has for the posts a and b.
entriesFor(list, kind, a, b) ==
  {k \in 1..Len(list) : list[k][1] = kind /\ list[k][2] = a /\ list[k][3] = b}

\* C23: validateTopicDiversity reports for each pair of posts one blocking
\* error iff the Jaccard similarity of their title word sets is above 0.7,
\* and one warning iff it is above 0.5 and at most 0.7; the similarity is 1
\* when both word sets are empty and 0 when exactly one is; nothing else is
\* reported.
TopicDiversityByJaccard ==
  (validatorCall.fn = "validateTopicDiversity" /\ validatorResult # <<>>) =>
    LET ps == validatorCall.args[1]
        res == validatorResult[1]
        pairs == {pr \in (1..Len(ps)) \X (1..Len(ps)) : pr[1] < pr[2]}
        sim(pr) == jaccard(ps[pr[1]].title, ps[pr[2]].title)
        high(pr) == 10 * sim(pr)[1] > 7 * sim(pr)[2]
        mid(pr) == 2 * sim(pr)[1] > sim(pr)[2] /\ 10 * sim(pr)[1] <= 7 * sim(pr)[2]
    IN  /\ \A pr \in pairs :
             /\ Cardinality(entriesFor(res.errors, "too similar", pr[1], pr[2]))
                  = IF high(pr) THEN 1 ELSE 0
             /\ Cardinality(entriesFor(res.warnings, "moderate similarity", pr[1], pr[2]))
                  = IF mid(pr) THEN 1 ELSE 0
        /\ Len(res.errors) = Cardinality({pr \in pairs : high(pr)})
        /\ Len(res.warnings) = Cardinality({pr \in pairs : mid(pr)})
        /\ res.isValid = (res.errors = <<>>)

\* Two titles made of short words only are a blocking error.
TopicDiversityByJaccardWitness ==
  /\ validatorCall.fn = "validateTopicDiversity"
  /\ validatorResult # <<>>
  /\ Len(validatorCall.args[1]) = 2
  /\ \A k \in 1..2 :
       /\ validatorCall.args[1][k].title # <<>>
       /\ \A w \in Range(validatorCall.args[1][k].title) : w.len <= 3
  /\ ~validatorResult[1].isValid
  /\ Len(validatorResult[1].errors) = 1

\* The personas that have posts or comments, and the largest number of posts
\* and comments that one of them has.
contributors(ps, cs) ==
  {ps[k].author_username : k \in 1..Len(ps)} \cup {cs[k].username : k \in 1..Len(cs)}

topContent(ps, cs) ==
  IF contributors(ps, cs) = {} THEN 0
  ELSE CHOOSE n \in 0..(Len(ps) + Len(cs)) :
         /\ \E name \in contributors(ps, cs) : contentOf(ps, cs, name) = n
         /\ \A name \in contributors(ps, cs) : contentOf(ps, cs, name) <= n

kindsOf(list) == {list[k][1] : k \in 1..Len(list)}

\* C24 as stated: when the top persona's share of posts plus comments is above
\* 50% the blocking error and the above-40% warning are both reported; a top
\* share above 40% and at most 50% gives the warning and no error.
DominanceGivesErrorAndWarning ==
  (validatorCall.fn = "validatePersonaDistribution" /\ validatorResult # <<>>) =>
    LET ps == validatorCall.args[1]
        cs == validatorCall.args[2]
        total == Len(ps) + Len(cs)
        top == topContent(ps, cs)
        res == validatorResult[1]
    IN  /\ (total > 0 /\ top * 100 > 50 * total)
             => /\ "dominates" \in kindsOf(res.errors)
                /\ "high content share" \in kindsOf(res.warnings)
        /\ (total > 0 /\ top * 100 > 40 * total /\ top * 100 <= 50 * total)
             => /\ "high content share" \in kindsOf(res.warnings)
                /\ res.errors = <<>>

\* C24 as amended: the blocking error is reported iff the top share is above
\* 50%, and the above-40% warning iff the top share is above 40% and at least
\* two personas have content; so a share above 50% gives both when two
\* personas have content and the error alone when one persona has it all,
\* and a share above 40% and at most 50% gives the warning and no error.
DominanceWarningNeedsTwoPersonas ==
  (validatorCall.fn = "validatePersonaDistribution" /\ validatorResult # <<>>) =>
    LET ps == validatorCall.args[1]
        cs == validatorCall.args[2]
        total == Len(ps) + Len(cs)
        top == topContent(ps, cs)
        res == validatorResult[1]
        several == Cardinality(contributors(ps, cs)) > 1
    IN  /\ ("dominates" \in kindsOf(res.errors)) = (total > 0 /\ top * 100 > 50 * total)
        /\ ("high content share" \in kindsOf(res.warnings))
             = (several /\ top * 100 > 40 * total)
        /\ Len(res.errors) <= 1
        /\ \A k \in 1..Len(res.errors) :
             contentOf(ps, cs, res.errors[k][2]) = top
        /\ \A k \in 1..Len(res.warnings) :
             res.warnings[k][1] = "high content share"
               => contentOf(ps, cs, res.warnings[k][2]) = top
        /\ res.isValid = (res.errors = <<>>)
        /\ (total > 0 /\ top * 100 > 40 * total /\ top * 100 <= 50 * total) => several

\* Two personas have content and the top one has 3 of 5: error and warning.
DominanceWarningNeedsTwoPersonasWitness ==
  /\ validatorCall.fn = "validatePersonaDistribution"
  /\ validatorResult # <<>>
  /\ Len(validatorCall.args[1]) + Len(validatorCall.args[2]) = 5
  /\ topContent(validatorCall.args[1], validatorCall.args[2]) = 3
  /\ Cardinality(contributors(validatorCall.args[1], validatorCall.args[2])) = 2
  /\ Len(validatorResult[1].errors) = 1
  /\ Len(validatorResult[1].warnings) = 1

\* C25: when validation has run, every persona of the run without a post and
\* without a comment is listed in a warning about unused personas.
UnusedPersonasReported ==
  (pc \in {"returned", "failed"} /\ error \in {"none", "validation"}) =>
    LET unused == {u \in Range(input.personas) : contentOf(posts, allComments, u) = 0}
    IN  unused # {}
          => \E k \in 1..Len(validation.warnings) :
               /\ validation.warnings[k][1] = "unused personas"
               /\ Range(validation.warnings[k][2]) = unused

\* The first post of the list with the given id, 0 when there is none.
postIndexOf(ps, id) ==
  IF \E k \in 1..Len(ps) : ps[k].post_id = id
  THEN CHOOSE k \in 1..Len(ps) :
         ps[k].post_id = id /\ \A m \in 1..(k - 1) : ps[m].post_id # id
  ELSE 0

\* C26: after the auto-fix every post has the time adjustToBusinessHours gives
\* for it, every comment that was earlier than the adjusted time of its post
\* has exactly that time plus 15 minutes, and no comment whose post exists is
\* earlier than its post.
FixPutsCommentsAfterPosts ==
  (validatorCall.fn = "fixTimestampIssues" /\ validatorResult # <<>>) =>
    LET ps == validatorCall.args[1]
        cs == validatorCall.args[2]
        fp == validatorResult[1].fixed.posts
        fc == validatorResult[1].fixed.comments
    IN  /\ Len(fp) = Len(ps)
        /\ Len(fc) = Len(cs)
        /\ \A k \in 1..Len(ps) :
             fp[k] = [ps[k] EXCEPT !.timestamp = adjustToBusinessHours(ps[k].timestamp)]
        /\ \A k \in 1..Len(cs) :
             LET p == postIndexOf(ps, cs[k].post_id)
             IN  p # 0
                   => /\ fc[k].timestamp >= fp[p].timestamp
                      /\ cs[k].timestamp < fp[p].timestamp
                           => fc[k] = [cs[k] EXCEPT !.timestamp = fp[p].timestamp + 15]

\* A post of 23:30 is moved to 09:00 of the next day and its comment of 23:45
\* to 09:15 of the next day.
FixPutsCommentsAfterPostsWitness ==
  /\ validatorCall.fn = "fixTimestampIssues"
  /\ validatorResult # <<>>
  /\ validatorCall.args[1][1].timestamp = 23 * 60 + 30
  /\ validatorCall.args[2][1].post_id = 1
  /\ validatorCall.args[2][1].timestamp = 23 * 60 + 45
  /\ validatorResult[1].fixed.posts[1].timestamp = 24 * 60 + 9 * 60
  /\ validatorResult[1].fixed.comments[1].timestamp = 24 * 60 + 9 * 60 + 15

\* C27: the auto-fix leaves unchanged every post whose hour is at least 6 and
\* below 23 and every comment that has no post or is not earlier than the
\* adjusted time of its post; a reply that is earlier than its parent and not
\* earlier than the adjusted time of its post keeps its time, and the
\* validation that follows reports that the reply is before its parent and is
\* not valid.
FixLeavesOtherTimestamps ==
  (validatorCall.fn = "fixTimestampIssues" /\ validatorResult # <<>>) =>
    LET ps == validatorCall.args[1]
        cs == validatorCall.args[2]
        fp == validatorResult[1].fixed.posts
        fc == validatorResult[1].fixed.comments
        v == validatorResult[1].validation
        hour(t) == (t \div 60) % 24
    IN  /\ \A k \in 1..Len(ps) :
             (hour(ps[k].timestamp) >= 6 /\ hour(ps[k].timestamp) < 23) => fp[k] = ps[k]
        /\ \A k \in 1..Len(ps) : fp[k] = [ps[k] EXCEPT !.timestamp = fp[k].timestamp]
        /\ \A k \in 1..Len(cs) :
             LET p == postIndexOf(ps, cs[k].post_id)
             IN  /\ fc[k] = [cs[k] EXCEPT !.timestamp = fc[k].timestamp]
                 /\ (p = 0 \/ (p # 0 /\ cs[k].timestamp >= fp[p].timestamp)) => fc[k] = cs[k]
                 /\ \A q \in 1..Len(cs) :
                      (/\ p # 0
                       /\ cs[k].timestamp >= fp[p].timestamp
                       /\ cs[k].parent_comment_id = cs[q].comment_id
                       /\ cs[k].timestamp < cs[q].timestamp)
                        => /\ fc[k].timestamp = cs[k].timestamp
                           /\ \E e \in 1..Len(v.errors) :
                                v.errors[e] = <<"before its parent", cs[k].comment_id>>
                           /\ ~v.isValid

\* A reply of 09:10 to a comment of 12:10, under a post of 06:00.
FixLeavesOtherTimestampsWitness ==
  /\ validatorCall.fn = "fixTimestampIssues"
  /\ validatorResult # <<>>
  /\ validatorCall.args[1][1].timestamp = 6 * 60
  /\ validatorCall.args[2][1] = [comment_id |-> 1, post_id |-> 1, parent_comment_id |-> 2,
                                 username |-> 2, timestamp |-> 9 * 60 + 10]
  /\ validatorCall.args[2][2].timestamp = 12 * 60 + 10
  /\ validatorCall.args[2][2].post_id = 1
  /\ validatorResult[1].fixed.comments = validatorCall.args[2]
  /\ ~validatorResult[1].validation.isValid

\* C28 as stated: selectCommentAuthors returns at least 1 and at most 4
\* personas, none of them twice.
OneToFourCommentAuthors ==
  (matcherCall.fn = "selectCommentAuthors" /\ matcherResult # <<>>) =>
    LET selected == matcherResult[1].selected
    IN  /\ Len(selected) >= 1
        /\ Len(selected) <= 4
        /\ Distinct(selected)

\* C28 as amended: selectCommentAuthors returns at least 1 and at most 5
\* personas of the list, none of them twice: at most 4 personas other than
\* the post author, followed by the post author when the author joins or no
\* other persona exists.
OneToFiveCommentAuthors ==
  (matcherCall.fn = "selectCommentAuthors" /\ matcherResult # <<>>) =>
    LET selected == matcherResult[1].selected
        postAuthor == matcherCall.args[3]
        others == {k \in 1..Len(selected) : selected[k] # postAuthor}
    IN  /\ Len(selected) >= 1
        /\ Len(selected) <= 5
        /\ Distinct(selected)
        /\ Range(selected) \subseteq Range(matcherCall.args[2])
        /\ Cardinality(others) <= 4
        /\ \A k \in 1..Len(selected) : selected[k] = postAuthor => k = Len(selected)
        /\ (postAuthor \in Range(selected))
             = (matcherCall.args[6] \/ Len(matcherCall.args[2]) = 1)

OneToFiveCommentAuthorsWitness ==
  /\ matcherCall.fn = "selectCommentAuthors"
  /\ matcherResult # <<>>
  /\ Len(matcherCall.args[2]) = 5
  /\ Len(matcherResult[1].selected) = 5

\* C29: no comment plan whose persona is the author of the post asks for a
\* reference to the company, at any position of the commenter list.
AuthorNeverMentionsProduct ==
  pc = "comments" =>
    \A k \in 1..Len(commentPlans) :
      commentPlans[k].author = posts[i + 1].author_username
        => ~commentPlans[k].shouldMentionProduct

\* C30: at the end of a run the post count and the comment count that the
\* PersonaMatcher holds for each persona are the numbers of generated posts
\* and comments of that persona.
TrackerCountsMatchContent ==
  pc \in {"validate", "returned"} =>
    \A u \in DOMAIN personaMatcher :
      /\ personaMatcher[u].postCount
           = Cardinality({k \in 1..Len(posts) : posts[k].author_username = u})
      /\ personaMatcher[u].commentCount
           = Cardinality({k \in 1..Len(allComments) : allComments[k].username = u})

\* ------------------------------------------------------------------------
\* The planning step alone: the three strategies over a week of up to seven
\* posts (SpecPlan).  The post time is drawn at its earliest value.
\* ------------------------------------------------------------------------
MaxPlanSubreddits == 3
MaxPlanPersonas == 3
MaxPlanKeywords == 5

PlanSubredditLists ==
  {s \in UNION {[1..n -> 1..MaxPlanSubreddits] : n \in 1..MaxPlanSubreddits} :
     \A k \in 1..Len(s) : s[k] = 1 \/ \E m \in 1..(k - 1) : s[m] >= s[k] - 1}

PlanInputs ==
  [subreddits : PlanSubredditLists, postsPerWeek : 1..MaxPostsPerWeek,
   personas : {[k \in 1..n |-> k] : n \in MinPersonas..MaxPlanPersonas},
   keywords : {[k \in 1..n |-> k] : n \in 1..MaxPlanKeywords}]

PlanTimeDraws == {[afternoon |-> FALSE, hour |-> 0, minute |-> 0, relocate |-> FALSE]}

generateWeek ==
  /\ pc = "idle"
  /\ \E in \in PlanInputs : input' = in
  /\ subredditStrategy' = subReset(subredditStrategy)
  /\ keywordStrategy' = kwReset(keywordStrategy)
  /\ personaMatcher' = pmReset(personaMatcher)
  /\ runs' = runs + 1
  /\ pc' = "plan"
  /\ UNCHANGED <<dateCall, dateResult, validatorCall, validatorResult, matcherCall, matcherResult, postPlans, posts, allComments, commentIdCounter, i,
                 commentPlans, j, requests, error, validation, calendar>>

planPost ==
  /\ pc = "plan"
  /\ LET postIndex == Len(postPlans)
         sub == selectSubreddit(subredditStrategy, input.subreddits, postIndex)
         author == selectPostAuthor(personaMatcher, input.personas, postIndex)
     IN  \E keywordCount \in KeywordCountDraws, rnd \in PlanTimeDraws :
           LET kw == selectKeywordsForPost(keywordStrategy, input.keywords,
                                           postIndex, keywordCount)
               plan == [postIndex |-> postIndex,
                        subreddit |-> sub.selected,
                        author |-> author.selected,
                        timestamp |-> generatePostTime(getCurrentWeekStart, postIndex,
                                                       input.postsPerWeek, rnd),
                        keywords |-> kw.selected]
           IN  /\ subredditStrategy' = sub.tracker
               /\ keywordStrategy' = [tracker |-> kw.tracker, combos |-> kw.combos]
               /\ personaMatcher' = author.tracker
               /\ postPlans' = Append(postPlans, plan)
               /\ pc' = IF postIndex + 1 < input.postsPerWeek THEN "plan" ELSE "posts"
  /\ UNCHANGED <<runs, dateCall, dateResult, validatorCall, validatorResult, matcherCall, matcherResult, input, posts, allComments, commentIdCounter, i, commentPlans, j,
                 requests, error, validation, calendar>>

NextPlan == generateWeek \/ planPost

SpecPlan == Init /\ [][NextPlan]_vars

\* C31: selectPostAuthor returns a persona with the minimum post count, ties
\* broken by the smallest last-used index and then by input order; over the
\* planning step the author of post i is personas[i mod n], and the post
\* counts of any two personas never differ by more than 1.
rankOfPersona(tracker, personas, k) ==
  <<tracker[personas[k]].postCount, tracker[personas[k]].lastUsedIndex, k>>

rankLeq(a, b) ==
  \/ a[1] < b[1]
  \/ a[1] = b[1] /\ a[2] < b[2]
  \/ a[1] = b[1] /\ a[2] = b[2] /\ a[3] <= b[3]

PostAuthorsRotate ==
  pc \in {"plan", "posts"} =>
    LET personas == input.personas
        n == Len(personas)
        tracker == pmInitTracker(personaMatcher, personas)
    IN  /\ pc = "plan" =>
             \E s \in 1..n :
               /\ selectPostAuthor(personaMatcher, personas, Len(postPlans)).selected
                    = personas[s]
               /\ \A k \in 1..n : rankLeq(rankOfPersona(tracker, personas, s),
                                          rankOfPersona(tracker, personas, k))
        /\ \A k \in 1..Len(postPlans) :
             postPlans[k].author = personas[((k - 1) % n) + 1]
        /\ \A u, v \in Range(personas) :
             tracker[u].postCount - tracker[v].postCount <= 1

PostAuthorsRotateWitness ==
  /\ pc = "posts"
  /\ Len(postPlans) = MaxPostsPerWeek
  /\ Len(input.personas) = MaxPlanPersonas
  /\ postPlans[MaxPlanPersonas + 1].author = input.personas[1]
  /\ personaMatcher[input.personas[1]].postCount > personaMatcher[input.personas[2]].postCount

\* C32: at every point of a planning run the post counts of any two supplied
\* subreddits differ by at most 1; once every subreddit has a post, the
\* subreddit with the smallest last-used post index is picked, also when
\* postsPerWeek exceeds the number of subreddits.
SubredditCountsBalanced ==
  pc \in {"plan", "posts"} =>
    LET tracker == subInitTracker(subredditStrategy, input.subreddits)
        usage(sub) == tracker[subIndexOf(tracker, sub)]
        supplied == Range(input.subreddits)
    IN  /\ \A u, v \in supplied :
             usage(u).postsThisWeek - usage(v).postsThisWeek <= 1
        /\ (pc = "plan" /\ \A u \in supplied : usage(u).postsThisWeek >= 1) =>
             LET picked == selectSubreddit(subredditStrategy, input.subreddits,
                                           Len(postPlans)).selected
             IN  /\ picked \in supplied
                 /\ \A u \in supplied :
                      usage(picked).lastPostIndex <= usage(u).lastPostIndex

SubredditCountsBalancedWitness ==
  /\ pc = "posts"
  /\ Len(postPlans) = MaxPostsPerWeek
  /\ input.subreddits = [k \in 1..MaxPlanSubreddits |-> k]
  /\ \E k \in 1..Len(subredditStrategy) : subredditStrategy[k].postsThisWeek >= 2

\* The ranked candidates of a call and the selection after the first loop.
sortedKeywordsOf(kw, availableKeywords) ==
  LET t1 == kwInitTracker(kw.tracker, availableKeywords)
      order == stableSort([k \in 1..Len(availableKeywords) |->
                 <<t1[availableKeywords[k]].usageCount,
                   t1[availableKeywords[k]].lastUsedPostIndex>>])
  IN  [p \in 1..Len(availableKeywords) |-> availableKeywords[order[p]]]

firstPassOf(kw, availableKeywords, postIndex, keywordCount) ==
  kwFirstPass(sortedKeywordsOf(kw, availableKeywords),
              [selected |-> <<>>,
               tracker |-> kwInitTracker(kw.tracker, availableKeywords)],
              kw.combos, keywordCount, postIndex).selected

\* C33: whenever the first pass of selectKeywordsForPost reaches the target
\* count by itself, the returned combination differs from every combination
\* returned earlier in the run; a combination returned before is returned
\* again only through the second pass.
FirstPassCombinationIsNew ==
  pc = "plan" =>
    \A keywordCount \in KeywordCountDraws :
      LET postIndex == Len(postPlans)
          returned == selectKeywordsForPost(keywordStrategy, input.keywords,
                                            postIndex, keywordCount).selected
          first == firstPassOf(keywordStrategy, input.keywords, postIndex, keywordCount)
          earlier == {Range(postPlans[k].keywords) : k \in 1..Len(postPlans)}
      IN  /\ Len(first) >= keywordCount =>
               /\ returned = first
               /\ Range(returned) \notin earlier
          /\ Range(returned) \in earlier => Len(first) < keywordCount

\* Both cases have happened in one run: a selection completed by the first
\* pass after earlier selections, and a combination returned a second time.
FirstPassCombinationIsNewWitness ==
  /\ pc = "plan"
  /\ Len(input.keywords) >= 3
  /\ \E k1, k2 \in 1..Len(postPlans) :
       k1 < k2 /\ Range(postPlans[k1].keywords) = Range(postPlans[k2].keywords)
  /\ \E keywordCount \in KeywordCountDraws :
       Len(firstPassOf(keywordStrategy, input.keywords, Len(postPlans), keywordCount))
         >= keywordCount

RECURSIVE usageTotal(_, _)
usageTotal(tracker, ids) ==
  IF ids = {} THEN 0
  ELSE LET id == CHOOSE x \in ids : TRUE
       IN  tracker[id].usageCount + usageTotal(tracker, ids \ {id})

RECURSIVE keywordsReturned(_)
keywordsReturned(plans) ==
  IF plans = <<>> THEN 0
  ELSE Len(Head(plans).keywords) + keywordsReturned(Tail(plans))

\* C34: selectKeywordsForPost returns, for a target of 2 or 3, exactly
\* min(target, number of supplied keywords) keywords; with a single supplied
\* keyword it returns that keyword; and the usage counts add up to the number
\* of keywords returned so far in the run.
SelectionSizeAndUsageTotal ==
  pc \in {"plan", "posts"} =>
    LET keywords == input.keywords
        n == Len(keywords)
    IN  /\ pc = "plan" =>
             \A keywordCount \in KeywordCountDraws :
               LET r == selectKeywordsForPost(keywordStrategy, keywords,
                                              Len(postPlans), keywordCount)
               IN  /\ Len(r.selected) = Min(keywordCount, n)
                   /\ Range(r.selected) \subseteq Range(keywords)
                   /\ n = 1 => r.selected = <<keywords[1]>>
                   /\ usageTotal(r.tracker, DOMAIN r.tracker)
                        = keywordsReturned(postPlans) + Len(r.selected)
        /\ \A k \in 1..Len(postPlans) :
             Len(postPlans[k].keywords) \in {Min(c, n) : c \in KeywordCountDraws}
        /\ usageTotal(keywordStrategy.tracker, DOMAIN keywordStrategy.tracker)
             = keywordsReturned(postPlans)

\* A full week in which a selection was completed by the second loop.
SelectionSizeAndUsageTotalWitness ==
  /\ pc = "posts"
  /\ Len(postPlans) = MaxPostsPerWeek
  /\ Len(input.keywords) = 3
  /\ \E k1, k2 \in 1..Len(postPlans) :
       /\ k1 < k2
       /\ Len(postPlans[k2].keywords) = 3
       /\ Range(postPlans[k1].keywords) = Range(postPlans[k2].keywords)
  /\ keywordsReturned(postPlans) > 2 * MaxPostsPerWeek

\* C35: the first keyword of every selection has the minimum usage count
\* among the supplied keywords at the time of the call, ties by the smallest
\* last-used index; so once a keyword has been used, a selection from a set
\* that still holds unused keywords contains a keyword other than it.
FirstKeywordIsLeastUsed ==
  pc = "plan" =>
    \A keywordCount \in KeywordCountDraws :
      LET keywords == input.keywords
          tracker == kwInitTracker(keywordStrategy.tracker, keywords)
          selected == selectKeywordsForPost(keywordStrategy, keywords,
                                            Len(postPlans), keywordCount).selected
          first == selected[1]
          used == {id \in Range(keywords) : tracker[id].usageCount > 0}
          unused == Range(keywords) \ used
      IN  /\ \A id \in Range(keywords) :
               \/ tracker[first].usageCount < tracker[id].usageCount
               \/ /\ tracker[first].usageCount = tracker[id].usageCount
                  /\ tracker[first].lastUsedPostIndex <= tracker[id].lastUsedPostIndex
          /\ unused # {} =>
               /\ first \in unused
               /\ \A id \in used : \E other \in Range(selected) : other # id

\* A call made when some keywords have been used and others have not.
FirstKeywordIsLeastUsedWitness ==
  /\ pc = "plan"
  /\ Len(postPlans) >= 1
  /\ \E id \in Range(input.keywords) : keywordStrategy.tracker[id].usageCount = 0
  /\ \E id \in Range(input.keywords) : keywordStrategy.tracker[id].usageCount >= 1

\* The largest difference between the usage counts of two supplied keywords.
usageSpread(tracker, keywords) ==
  LET t1 == kwInitTracker(tracker, keywords)
  IN  CHOOSE d \in 0..MaxPostsPerWeek :
        /\ \E u, v \in Range(keywords) : t1[u].usageCount - t1[v].usageCount = d
        /\ \A u, v \in Range(keywords) : t1[u].usageCount - t1[v].usageCount <= d

\* C40 as stated: after any sequence of at most seven selectKeywordsForPost
\* calls of one run on the same list of at least two keywords, the usage
\* counts of any two supplied keywords differ by at most 1.
KeywordUsageBalanced ==
  (pc \in {"plan", "posts"} /\ Len(input.keywords) >= 2) =>
    usageSpread(keywordStrategy.tracker, input.keywords) <= 1

\* C40: after at most seven selectKeywordsForPost calls of one run on the
\* same list of at least two keywords, the usage counts of any two supplied
\* keywords differ by at most 2, and by at most 1 when the list has at most
\* three keywords.
KeywordUsageWithinTwo ==
  (pc \in {"plan", "posts"} /\ Len(input.keywords) >= 2) =>
    /\ usageSpread(keywordStrategy.tracker, input.keywords) <= 2
    /\ Len(input.keywords) <= 3 =>
         usageSpread(keywordStrategy.tracker, input.keywords) <= 1

\* A candidate was skipped for novelty and one keyword is two uses ahead.
KeywordUsageWithinTwoWitness ==
  /\ pc \in {"plan", "posts"}
  /\ Len(input.keywords) >= 4
  /\ usageSpread(keywordStrategy.tracker, input.keywords) = 2
  /\ \E k1, k2 \in 1..Len(postPlans) :
       /\ k1 < k2
       /\ Len(postPlans[k1].keywords) = 2
       /\ postPlans[k2].keywords[1] = postPlans[k1].keywords[1]
       /\ postPlans[k1].keywords[2] \notin Range(postPlans[k2].keywords)

\* Every comment of cs with a parent has it among the comments of cs, with a
\* smaller comment number and no parent of its own.
parentsAreEarlierTopLevel(cs) ==
  \A k \in 1..Len(cs) :
    cs[k].parent_comment_id # 0 =>
      \E m \in 1..Len(cs) :
        /\ cs[m].comment_id = cs[k].parent_comment_id
        /\ cs[m].comment_id < cs[k].comment_id
        /\ m < k
        /\ cs[m].parent_comment_id = 0

\* C36: every comment's parent was created earlier in the same run (it has a
\* smaller comment number than the child) and is itself a top-level comment:
\* threads are acyclic and never deeper than one reply level.
ParentsAreEarlierTopLevel ==
  /\ parentsAreEarlierTopLevel(allComments)
  /\ parentsAreEarlierTopLevel(calendar.comments)

\* A returned calendar with a reply under the first post and one under the
\* second post.
ParentsAreEarlierTopLevelWitness ==
  /\ calendar # NoCalendar
  /\ \E a, b \in 1..Len(calendar.comments) :
       /\ calendar.comments[a].parent_comment_id # 0
       /\ calendar.comments[b].parent_comment_id # 0
       /\ calendar.comments[a].post_id # calendar.comments[b].post_id

\* The comments of the post `id`, in creation order.
threadOf(cs, id) == SelectSeq(cs, LAMBDA c : c.post_id = id)

\* C37: within one post no persona authors more than one comment (the
\* usernames of the input being distinct): the commenters of a post are
\* pairwise distinct, the post author among them at most once.
OneCommentPerPersonaAndPost ==
  \A p \in 1..Len(posts) :
    LET thread == threadOf(allComments, posts[p].post_id)
    IN  /\ Distinct([k \in 1..Len(thread) |-> thread[k].username])
        /\ Cardinality({k \in 1..Len(thread) :
                          thread[k].username = posts[p].author_username}) <= 1

\* A complete thread of four comments, one of them by the post author.
OneCommentPerPersonaAndPostWitness ==
  /\ pc = "validate"
  /\ \E p \in 1..Len(posts) :
       LET thread == threadOf(allComments, posts[p].post_id)
       IN  /\ Len(thread) = 4
           /\ \E k \in 1..Len(thread) : thread[k].username = posts[p].author_username

\* C38: with at least 2 personas, the first comment of every post is not
\* written by the post's author; the author, when it comments, is the last
\* of the commenters of the post.
AuthorCommentsLast ==
  Len(input.personas) >= 2 =>
    \A p \in 1..Len(posts) :
      LET thread == threadOf(allComments, posts[p].post_id)
      IN  \A k \in 1..Len(thread) :
            thread[k].username = posts[p].author_username =>
              /\ k > 1
              /\ k = Len(thread)
              /\ p = i + 1 => k = Len(commentPlans)

\* Both posts of a run have a complete thread closed by the post's author.
AuthorCommentsLastWitness ==
  /\ pc = "validate"
  /\ Len(posts) = 2
  /\ \A p \in 1..Len(posts) :
       LET thread == threadOf(allComments, posts[p].post_id)
       IN  /\ Len(thread) >= 2
           /\ thread[1].parent_comment_id = 0
           /\ thread[Len(thread)].username = posts[p].author_username

\* The messages of the timestamp check about the hour of a post.
postHourMessages(v) ==
  {k \in 1..Len(v.warnings) : v.warnings[k][1] = "unusual timestamp"}
    \cup {k \in 1..Len(v.errors) : v.errors[k][1] = "unrealistic timestamp"}

\* C39: inside generate every post hour is in [9, 21), the auto-fix changes
\* no post (so no post timestamp), and the validation that follows holds
\* neither the post-hour warning nor the post-hour error.
FixKeepsPlannedPostTimes ==
  [][/\ \A k \in 1..Len(posts) : getHours(posts[k].timestamp) \in 9..20
     /\ pc = "validate" =>
          /\ posts' = posts
          /\ fixTimestampIssues(posts, allComments).posts = posts
          /\ postHourMessages(validation') = {}
          /\ postHourMessages(validateTimestamps(posts', allComments')) = {}]_vars

\* A run was validated with a post at 09:00 and a post at 20:59.
FixKeepsPlannedPostTimesWitness ==
  /\ pc \in {"returned", "failed"}
  /\ error \in {"none", "validation"}
  /\ \E a, b \in 1..Len(posts) :
       /\ getHours(posts[a].timestamp) = 9 /\ getMinutes(posts[a].timestamp) = 0
       /\ getHours(posts[b].timestamp) = 20 /\ getMinutes(posts[b].timestamp) = 59

====
